---- MODULE Spec2Model ----
(***************************************************************************)
(* A model of convert-fgd-dem-cpp: the mesh text parser, the mesh grid     *)
(* builder, the mosaic assembler, the bounded pipeline runner and the      *)
(* raster merger.                                                          *)
(*                                                                         *)
(* Numbers.  A double is modelled as an integer count of tenths, so        *)
(* -9999.0 is -99990 and 12.5 is 125; every input literal has at most one  *)
(* fraction digit.  Geographic coordinates are integers in an arbitrary    *)
(* unit and quotients are exact rationals: floating-point rounding error   *)
(* is not modelled.                                                        *)
(*                                                                         *)
(* Text.  A text is a sequence of one-character strings.  A survey-type    *)
(* name and the tail of a tag are each one symbol of the alphabet.         *)
(***************************************************************************)
EXTENDS Integers, Sequences, FiniteSets, TLC

VARIABLES
    \* FastFGDParser::parse_tuple_list and FastTupleListParser::parse
    tuple_records,   \* the records the text was written from
    xml,             \* the text from the opening tupleList tag on
    sea_at_zero,     \* the parser's flag
    ptr,             \* parse_tuple_list's ptr (1-based, Len+1 is end)
    elevation_list,  \* parse_tuple_list's output vector
    ppc,             \* parse_tuple_list's position
    ftlp_result,     \* FastTupleListParser::parse's result, or "none"
    \* Dem::get_np_array
    dem_sea_at_zero, \* Dem::sea_at_zero, from Converter::Config::sea_at_zero
    doc,             \* the mesh document handed to get_np_array
    data,            \* XmlParser::Impl::data, the ParsedData
    np_array,        \* the grid get_np_array returns, a sequence of rows
    cell_writes,     \* the cell writes of the fill loop, in order
    ub,              \* a write fell outside the allocated buffer
    gpc,             \* get_np_array's position
    \* merge_tif_files
    folder,          \* config.input_folder on disk: its entries in iteration order
    config,          \* the MergeConfig
    m,               \* merge_tif_files' locals
    output,          \* merge_tif_files' output raster, or "none"
    canvas_before,   \* output.data before the latest dataset was placed
    ec,              \* the std::error_code handed in
    merge_result,    \* merge_tif_files' return value, or "none"
    written,         \* the raster file the call wrote, or "none"
    mpc,             \* merge_tif_files' position
    \* Dem::get_xml_content and Converter::make_data_for_geotiff
    all_content_list, \* Dem::all_content_list, one document per mesh
    mesh_code_list,   \* Dem::mesh_code_list
    meta_data_list,   \* Dem::meta_data_list
    np_array_list,    \* Dem::np_array_list
    tasks_pending,    \* the indices the running parallel_for_each has not done yet
    task_order,       \* the tasks done so far, in completion order
    bounds_latlng,    \* Dem::bounds_latlng
    combined_array,   \* combine_meta_data_and_contents' canvas, a sequence of rows
    image_size,       \* total_x and total_y
    make_result,      \* make_data_for_geotiff's outcome, or "none"
    dpc,              \* the position in get_xml_content / make_data_for_geotiff
    \* TBBPipeline::process_files
    file_paths,       \* the files behind file_paths, in order
    max_tokens_,      \* TBBPipeline::max_tokens_
    file_index,       \* the read stage's counter
    stopped,          \* fc.stop() was called
    items,            \* the items in flight, one per token in use
    next_token,       \* the item the in-order collect stage takes next
    results,          \* process_files' results vector
    parse_order,      \* the indices in the order the parse stage handled them
    returned,         \* the vector process_files returned, or "none"
    tpc,              \* process_files' position
    \* FastFGDParser::parse_all
    fgd_elems,        \* the elements the document was written from, in order
    fgd_xml,          \* parse_all's xml
    fgd_ptr,          \* parse_all's ptr (1-based, Len+1 is end)
    fgd_data,         \* parse_all's data, the ParsedData being filled
    fgd_result,       \* what parse_all returned, or "none"
    fgd_pc,           \* parse_all's position
    \* GeoTiff::resampling
    rs_file,          \* the raster file at pImpl->output_path
    rs_temp,          \* the raster file at temp_path
    rs_target,        \* output_epsg, the target of the call
    rs_src,           \* src_data
    rs_transform,     \* the systems transform and inv_transform were made for
    rs_dst,           \* dst_data
    rs_ec,            \* the std::error_code handed in
    rs_result,        \* the call's outcome: "none", "true", "false" or "exception"
    rs_calls,         \* the calls of resampling made on the object so far
    rs_pc,            \* resampling's position
    \* main
    mn_args,          \* the parsed command line
    mn_archives,      \* nested_zips: what converting each archive comes to
    mn_task,          \* per archive, how far the parallel_for_each body got
    mn_reported,      \* the archives process_zip reported on std::cerr
    mn_exception,     \* an exception left a parallel_for_each body
    mn_merged,        \* merge_tif_files was called
    mn_exit,          \* main's return value, or "none"
    mn_pc,            \* main's position
    \* GeoTiff::resampling, the bilinear interpolation loop
    bl_src,           \* src_data, the raster read from the file
    bl_dst,           \* dst_data, with data in quarters of a tenth
    bl_coords,        \* per destination pixel, where inv_transform put its centre
    bl_index,         \* the destination pixels handled so far
    bl_pc,            \* the loop's position
    \* register_gdal_nodata_tag, called from concurrent conversions
    tx_resample,      \* config_.output_epsg != "EPSG:4326": the conversions call resampling
    tx_registered,    \* the function's static bool registered
    tx_extender,      \* libtiff's current tag extender
    tx_parent,        \* the static parent_extender
    tx_returned,      \* per thread, what its TIFFSetTagExtender call returned
    tx_site,          \* per thread, the call site it is at or was at last
    tx_pc,            \* per thread, its position in register_gdal_nodata_tag
    tx_installs,      \* the calls of TIFFSetTagExtender made so far
    \* the conversions of main's second parallel_for_each and the files they share
    cv_archives,      \* nested_zips: the archives under ./extracted
    cv_pc,            \* per conversion, its position in Converter::run
    cv_files,         \* the XML files under ./extracted, by directory and name
    cv_read,          \* per conversion, the documents it read
    cv_written        \* the output rasters written so far, in time order

parseVars == <<tuple_records, xml, sea_at_zero, ptr, elevation_list, ppc, ftlp_result>>
gridVars == <<dem_sea_at_zero, doc, data, np_array, cell_writes, ub, gpc>>

mergeVars == <<folder, config, m, output, canvas_before, ec, merge_result, written, mpc>>
demVars == <<all_content_list, mesh_code_list, meta_data_list, np_array_list, tasks_pending,
            task_order, bounds_latlng, combined_array, image_size, make_result, dpc>>
pipelineVars == <<file_paths, max_tokens_, file_index, stopped, items, next_token, results,
                 parse_order, returned, tpc>>
fgdVars == <<fgd_elems, fgd_xml, fgd_ptr, fgd_data, fgd_result, fgd_pc>>
rsVars == <<rs_file, rs_temp, rs_target, rs_src, rs_transform, rs_dst, rs_ec, rs_result,
           rs_calls, rs_pc>>
mainVars == <<mn_args, mn_archives, mn_task, mn_reported, mn_exception, mn_merged, mn_exit,
             mn_pc>>
blendVars == <<bl_src, bl_dst, bl_coords, bl_index, bl_pc>>
extenderVars == <<tx_resample, tx_registered, tx_extender, tx_parent, tx_returned, tx_site, tx_pc, tx_installs>>
convVars == <<cv_archives, cv_pc, cv_files, cv_read, cv_written>>
vars == <<parseVars, gridVars, mergeVars, demVars, pipelineVars, fgdVars, rsVars,
         mainVars, blendVars, extenderVars, convVars>>

notParse == <<gridVars, mergeVars, demVars, pipelineVars, fgdVars, rsVars,
        mainVars, blendVars, extenderVars, convVars>>
notGrid == <<parseVars, mergeVars, demVars, pipelineVars, fgdVars, rsVars,
        mainVars, blendVars, extenderVars, convVars>>
notMerge == <<parseVars, gridVars, demVars, pipelineVars, fgdVars, rsVars,
        mainVars, blendVars, extenderVars, convVars>>
notDem == <<parseVars, gridVars, mergeVars, pipelineVars, fgdVars, rsVars,
        mainVars, blendVars, extenderVars, convVars>>
notPipeline == <<parseVars, gridVars, mergeVars, demVars, fgdVars, rsVars,
        mainVars, blendVars, extenderVars, convVars>>
notFgd == <<parseVars, gridVars, mergeVars, demVars, pipelineVars, rsVars,
        mainVars, blendVars, extenderVars, convVars>>
notRs == <<parseVars, gridVars, mergeVars, demVars, pipelineVars, fgdVars,
        mainVars, blendVars, extenderVars, convVars>>
notMain == <<parseVars, gridVars, mergeVars, demVars, pipelineVars, fgdVars, rsVars, blendVars, extenderVars, convVars>>
notBlend == <<parseVars, gridVars, mergeVars, demVars, pipelineVars, fgdVars, rsVars,
        mainVars, extenderVars, convVars>>
notExtender == <<parseVars, gridVars, mergeVars, demVars, pipelineVars, fgdVars, rsVars,
        mainVars, blendVars, convVars>>
notConv == <<parseVars, gridVars, mergeVars, demVars, pipelineVars, fgdVars, rsVars,
        mainVars, blendVars, extenderVars>>

(***************************************************************************)
(* Bounds                                                                  *)
(***************************************************************************)
MaxRecords == 2
\* the largest grid-envelope high index (low is 0), per axis
MaxHigh == 1
\* the largest start-point component
MaxStart == 2
\* the most samples of a mesh handed to the grid builder
MaxSamples == 3
MaxFiles == 2
MaxMeshes == 2
MaxPaths == 3
MaxTokens == 2
MaxHardware == 1

(***************************************************************************)
(* Numbers                                                                  *)
(***************************************************************************)
Tenths(n) == 10 * n

\* -9999.0, the no-data sentinel
NODATA == Tenths(-9999)

Max(a, b) == IF a >= b THEN a ELSE b
Min(a, b) == IF a <= b THEN a ELSE b
Abs(a) == IF a < 0 THEN -a ELSE a

(***************************************************************************)
(* Text                                                                    *)
(***************************************************************************)
Digits == {"0", "1", "2", "3", "4", "5", "6", "7", "8", "9"}

DigitVal(c) ==
    CASE c = "0" -> 0 [] c = "1" -> 1 [] c = "2" -> 2 [] c = "3" -> 3
      [] c = "4" -> 4 [] c = "5" -> 5 [] c = "6" -> 6 [] c = "7" -> 7
      [] c = "8" -> 8 [] c = "9" -> 9

IsSpace(c) == c \in {" ", "\n", "\r", "\t"}

\* first position >= p (and < e) whose character is in set, or 0
RECURSIVE FindIn(_, _, _, _)
FindIn(s, p, e, set) ==
    IF p >= e THEN 0
    ELSE IF s[p] \in set THEN p
    ELSE FindIn(s, p + 1, e, set)

\* simd::find_char_avx2: memchr over [p, e)
find_char(s, p, e, c) == FindIn(s, p, e, {c})

\* first position >= p that is e or holds a character of set
RECURSIVE ScanTo(_, _, _, _)
ScanTo(s, p, e, set) ==
    IF p >= e THEN e
    ELSE IF s[p] \in set THEN p
    ELSE ScanTo(s, p + 1, e, set)

\* the whitespace-skipping loops
RECURSIVE skip_whitespace(_, _, _)
skip_whitespace(s, p, e) ==
    IF p < e /\ IsSpace(s[p]) THEN skip_whitespace(s, p + 1, e) ELSE p

\* one past the last digit of the run of digits that starts at p
RECURSIVE DigitsEnd(_, _, _)
DigitsEnd(s, p, e) ==
    IF p < e /\ s[p] \in Digits THEN DigitsEnd(s, p + 1, e) ELSE p

\* the value of the digits in [p, q)
RECURSIVE DigitsVal(_, _, _, _)
DigitsVal(s, p, q, acc) ==
    IF p >= q THEN acc ELSE DigitsVal(s, p + 1, q, 10 * acc + DigitVal(s[p]))

(***************************************************************************)
(* std::from_chars(first, last, double) on [p, e): an optional minus sign, *)
(* digits, an optional point and fraction digits, at least one digit in    *)
(* all; no leading whitespace and no plus sign are accepted.  The value is *)
(* in tenths (fraction digits after the first are dropped).  Exponents are *)
(* not modelled.                                                            *)
(***************************************************************************)
from_chars(s, p, e) ==
    LET neg   == p < e /\ s[p] = "-"
        i0    == IF neg THEN p + 1 ELSE p
        i1    == DigitsEnd(s, i0, e)
        point == i1 < e /\ s[i1] = "."
        f0    == IF point THEN i1 + 1 ELSE i1
        f1    == DigitsEnd(s, f0, e)
        ok    == (i1 - i0) + (f1 - f0) > 0
        whole == DigitsVal(s, i0, i1, 0)
        frac  == IF f1 > f0 THEN DigitVal(s[f0]) ELSE 0
        mag   == Tenths(whole) + frac
    IN  [ok |-> ok, value |-> IF ok THEN (IF neg THEN -mag ELSE mag) ELSE 0,
         ptr |-> IF ok THEN f1 ELSE p]

\* the characters of s in [p, q)
Slice(s, p, q) == [i \in 1..(q - p) |-> s[p + i - 1]]

(***************************************************************************)
(* The tuple list                                                          *)
(***************************************************************************)
SeaSurface == "sea-surface"      \* the survey-type name for the sea surface
SeaFloor == "sea-floor"          \* the survey-type name for the sea floor
Ground == "ground"               \* the survey-type name for the ground surface
Other == "other"                 \* the survey-type name "other"

SurveyTypes == {SeaSurface, SeaFloor, Ground, Other}

is_sea_type_first_only(type) == type = <<SeaSurface>>

is_sea_type(type) == type = <<SeaSurface>> \/ type = <<SeaFloor>>

\* the value pushed for a record
record_value(flag, type, parsed) ==
    IF parsed.ok
    THEN IF flag /\ parsed.value <= NODATA /\ is_sea_type(type) THEN 0 ELSE parsed.value
    ELSE NODATA

\* one iteration of parse_tuple_list's loop at p: the value pushed and the next ptr
tuple_record_at(s, p, e, flag) ==
    LET comma       == find_char(s, p, e, ",")
        value_start == comma + 1
        value_end   == ScanTo(s, value_start, e, {"\n", "<"})
        parsed      == from_chars(s, value_start, value_end)
        type        == Slice(s, p, comma)
    IN  [value |-> record_value(flag, type, parsed),
         next  |-> IF value_end < e /\ s[value_end] = "\n" THEN value_end + 1 ELSE value_end]

\* the loop's stop test without the closing-tag check of lines 345-347
tuple_loop_stops_at_end_only(s, p, e) ==
    \/ p >= e
    \/ find_char(s, p, e, ",") = 0

\* whether parse_tuple_list's loop stops at p
tuple_loop_stops(s, p, e) ==
    \/ p >= e
    \/ s[p] = "<"
    \/ find_char(s, p, e, ",") = 0

\* FastTupleListParser::parse's loop from p
RECURSIVE ftlp_loop(_, _, _, _, _)
ftlp_loop(s, p, e, flag, acc) ==
    IF p >= e THEN acc
    ELSE LET comma == find_char(s, p, e, ",")
         IN  IF comma = 0 THEN acc
             ELSE LET value_start == comma + 1
                      value_end   == ScanTo(s, value_start, e, {"\n"})
                      parsed      == from_chars(s, value_start, value_end)
                      type        == Slice(s, p, comma)
                      next        == IF value_end < e /\ s[value_end] = "\n"
                                     THEN value_end + 1 ELSE value_end
                  IN  ftlp_loop(s, next, e, flag,
                                Append(acc, record_value(flag, type, parsed)))

\* FastTupleListParser::parse
FastTupleListParser_parse(text, flag) ==
    LET e  == Len(text) + 1
        p0 == IF 1 < e /\ text[1] = "\n" THEN 2 ELSE 1
    IN  ftlp_loop(text, p0, e, flag, <<>>)

(***************************************************************************)
(* Input texts.  A value literal carries the number it denotes under the   *)
(* floating-point literal rules (num, in tenths), written by hand and not  *)
(* computed by from_chars.                                                 *)
(***************************************************************************)
TextNoData == [chars |-> <<"-", "9", "9", "9", "9", ".">>, ok |-> TRUE, num |-> -99990]
TextBelow == [chars |-> <<"-", "1", "0", "0", "0", "0">>, ok |-> TRUE, num |-> -100000]
TextAbove == [chars |-> <<"-", "9", "9", "9", "8", ".", "9">>, ok |-> TRUE, num |-> -99989]
TextLand == [chars |-> <<"1", "2", ".", "5">>, ok |-> TRUE, num |-> 125]
TextHill == [chars |-> <<"3", "0">>, ok |-> TRUE, num |-> 300]
TextWord == [chars |-> <<"x">>, ok |-> FALSE, num |-> 0]
TextEmpty == [chars |-> <<>>, ok |-> FALSE, num |-> 0]

ValueTexts == {TextNoData, TextBelow, TextAbove, TextLand, TextWord, TextEmpty}

TupleRecords == [type : SurveyTypes, text : ValueTexts]

SeqsUpTo(S, n) == UNION {[1..k -> S] : k \in 0..n}

\* the lines of a tuple list: "type,value\n" per record
RECURSIVE render_lines(_)
render_lines(recs) ==
    IF recs = <<>> THEN <<>>
    ELSE <<Head(recs).type, ",">> \o Head(recs).text.chars \o <<"\n">>
         \o render_lines(Tail(recs))

\* what follows the opening tag: a newline, the lines, the closing tag
render_tuple_list(recs) == <<"\n">> \o render_lines(recs) \o <<"<", "/gml:tupleList>">>

\* the text between the tags
render_content(recs) == <<"\n">> \o render_lines(recs)

\* the same lines with no newline after the last record
render_lines_open(recs) ==
    LET lines == render_lines(recs)
    IN  IF lines = <<>> THEN lines ELSE SubSeq(lines, 1, Len(lines) - 1)

\* what may follow the closing tag in a document: nothing, or further
\* elements, one of them with a comma in its text
TextsAfterTupleList ==
    { <<>>,
      <<"<", "/gml:DataBlock>", "<", "note>", "a", ",", "7", "\n", "<", "/note>">> }

\* the texts parse_tuple_list is run on, for the records recs
tuple_list_texts(recs) ==
    { body \o <<"<", "/gml:tupleList>">> \o after :
        body \in {<<"\n">> \o render_lines(recs), render_lines_open(recs)},
        after \in TextsAfterTupleList }

(***************************************************************************)
(* The values the variables of a component hold while a specification of   *)
(* another component runs.                                                  *)
(***************************************************************************)
ParseIdle ==
    /\ tuple_records = <<>> /\ xml = <<>> /\ sea_at_zero = TRUE /\ ptr = 1
    /\ elevation_list = <<>> /\ ppc = "idle" /\ ftlp_result = "none"

GridIdle ==
    /\ dem_sea_at_zero = TRUE /\ doc = <<>> /\ data = <<>> /\ np_array = <<>>
    /\ cell_writes = <<>> /\ ub = FALSE /\ gpc = "idle"

(***************************************************************************)
(* parse_tuple_list, one loop iteration per step                           *)
(***************************************************************************)
MergeIdle ==
    /\ folder = <<>> /\ config = <<>> /\ m = <<>> /\ output = "none"
    /\ canvas_before = <<>> /\ ec = "none" /\ merge_result = "none"
    /\ written = "none" /\ mpc = "idle"

DemIdle ==
    /\ all_content_list = <<>> /\ mesh_code_list = <<>> /\ meta_data_list = <<>>
    /\ np_array_list = <<>> /\ tasks_pending = {} /\ task_order = <<>>
    /\ bounds_latlng = <<>> /\ combined_array = <<>> /\ image_size = <<>>
    /\ make_result = "none" /\ dpc = "idle"

PipelineIdle ==
    /\ file_paths = <<>> /\ max_tokens_ = 1 /\ file_index = 1 /\ stopped = FALSE
    /\ items = {} /\ next_token = 1 /\ results = <<>> /\ parse_order = <<>>
    /\ returned = "none" /\ tpc = "idle"

FgdIdle ==
    /\ fgd_elems = <<>> /\ fgd_xml = <<>> /\ fgd_ptr = 1 /\ fgd_data = <<>>
    /\ fgd_result = "none" /\ fgd_pc = "idle"

RsIdle ==
    /\ rs_file = <<>> /\ rs_temp = <<>> /\ rs_target = <<>> /\ rs_src = <<>>
    /\ rs_transform = <<>> /\ rs_dst = <<>> /\ rs_ec = "none" /\ rs_result = "none"
    /\ rs_calls = 0 /\ rs_pc = "idle"

MainIdle ==
    /\ mn_args = <<>> /\ mn_archives = <<>> /\ mn_task = <<>> /\ mn_reported = {}
    /\ mn_exception = FALSE /\ mn_merged = FALSE /\ mn_exit = "none" /\ mn_pc = "idle"

BlendIdle ==
    /\ bl_src = <<>>
    /\ bl_dst = <<>>
    /\ bl_coords = <<>>
    /\ bl_index = 0
    /\ bl_pc = "idle"

ExtenderIdle ==
    /\ tx_resample = FALSE
    /\ tx_registered = FALSE
    /\ tx_extender = "none"
    /\ tx_parent = "none"
    /\ tx_returned = <<>>
    /\ tx_site = <<>>
    /\ tx_pc = <<>>
    /\ tx_installs = 0

ConvIdle ==
    /\ cv_archives = <<>>
    /\ cv_pc = <<>>
    /\ cv_files = {}
    /\ cv_read = <<>>
    /\ cv_written = <<>>

InitParse ==
    /\ tuple_records \in SeqsUpTo(TupleRecords, MaxRecords)
    /\ xml \in tuple_list_texts(tuple_records)
    /\ sea_at_zero \in BOOLEAN
    /\ ptr = 1
    /\ elevation_list = <<>>
    /\ ppc = "skip"
    /\ ftlp_result = "none"
    /\ GridIdle
    /\ MergeIdle
    /\ DemIdle
    /\ PipelineIdle
    /\ FgdIdle
    /\ RsIdle
    /\ MainIdle
    /\ BlendIdle
    /\ ExtenderIdle
    /\ ConvIdle

\* lines 338-341: skip the leading whitespace
PTL_SkipLeading ==
    /\ ppc = "skip"
    /\ ptr' = skip_whitespace(xml, ptr, Len(xml) + 1)
    /\ ppc' = "loop"
    /\ UNCHANGED <<tuple_records, xml, sea_at_zero, elevation_list, ftlp_result>>
    /\ UNCHANGED notParse

\* lines 343-397: one record
PTL_Record ==
    /\ ppc = "loop"
    /\ ~tuple_loop_stops(xml, ptr, Len(xml) + 1)
    /\ LET r == tuple_record_at(xml, ptr, Len(xml) + 1, sea_at_zero)
       IN  /\ elevation_list' = Append(elevation_list, r.value)
           /\ ptr' = r.next
    /\ UNCHANGED <<tuple_records, xml, sea_at_zero, ppc, ftlp_result>>
    /\ UNCHANGED notParse

\* lines 345-352, 399: the loop ends
PTL_Return ==
    /\ ppc = "loop"
    /\ tuple_loop_stops(xml, ptr, Len(xml) + 1)
    /\ ppc' = "done"
    /\ UNCHANGED <<tuple_records, xml, sea_at_zero, ptr, elevation_list, ftlp_result>>
    /\ UNCHANGED notParse

\* FastTupleListParser::parse on the text between the tags
FTLP_Parse ==
    /\ ftlp_result = "none"
    /\ ftlp_result' = FastTupleListParser_parse(render_content(tuple_records), sea_at_zero)
    /\ UNCHANGED <<tuple_records, xml, sea_at_zero, ptr, elevation_list, ppc>>
    /\ UNCHANGED notParse

NextParse == PTL_SkipLeading \/ PTL_Record \/ PTL_Return \/ FTLP_Parse

SpecParse == InitParse /\ [][NextParse]_vars

(***************************************************************************)
(* C3.  With normalization enabled, the tuple-list parser (parse_tuple_list *)
(* and FastTupleListParser::parse alike) emits exactly 0.0 for every record *)
(* whose survey type is one of the two sea tags and whose value is          *)
(* <= -9999.0, and the value itself for every record of any other survey    *)
(* type, also when that value is <= -9999.0.                                *)
(***************************************************************************)
SeaTags == {SeaSurface, SeaFloor}

C3_Emitted(out) ==
    \A i \in 1..Len(tuple_records) :
        LET r == tuple_records[i]
        IN  r.text.ok =>
              /\ i <= Len(out)
              /\ (r.type \in SeaTags /\ r.text.num <= Tenths(-9999)) => out[i] = 0
              /\ (r.type \notin SeaTags) => out[i] = r.text.num

RECURSIVE tuple_loop(_, _, _, _, _)
tuple_loop(s, p, e, flag, acc) ==
    IF tuple_loop_stops(s, p, e) THEN acc
    ELSE LET r == tuple_record_at(s, p, e, flag)
         IN  tuple_loop(s, r.next, e, flag, Append(acc, r.value))

\* parse_tuple_list(ptr, end, elevation_list, sea_at_zero) on text s from p
parse_tuple_list(s, p, flag) ==
    tuple_loop(s, skip_whitespace(s, p, Len(s) + 1), Len(s) + 1, flag, <<>>)

\* the records of the meshes handed to the grid builder
GridRecords ==
    { [type |-> Ground, text |-> TextLand],
      [type |-> Other, text |-> TextHill],
      [type |-> SeaSurface, text |-> TextNoData],
      [type |-> Ground, text |-> TextNoData] }

\* start-point components as written in a document, in tenths
StartValues == {Tenths(k) : k \in -1..MaxStart} \cup {15}

\* a mesh document by its fields; an absent field holds ParsedData's default
MeshDocs ==
    { d \in [has_tuple_list : BOOLEAN, has_grid_envelope : BOOLEAN, has_start_point : BOOLEAN,
             grid_high_x : 0..MaxHigh, grid_high_y : 0..MaxHigh,
             start_x : StartValues, start_y : StartValues,
             records : SeqsUpTo(GridRecords, MaxSamples),
             has_lower_corner : {TRUE}, lower_corner_x : {0}, lower_corner_y : {0},
             has_upper_corner : {TRUE}, upper_corner_x : {1}, upper_corner_y : {1},
             has_mesh_code : {TRUE}, mesh_code : {"533945"}] :
        /\ (~d.has_tuple_list => d.records = <<>>)
        /\ (~d.has_grid_envelope => d.grid_high_x = 0 /\ d.grid_high_y = 0)
        /\ (~d.has_start_point => d.start_x = 0 /\ d.start_y = 0) }

\* FastFGDParser::parse_all on the document d: the fields it finds
parse_all(d, flag) ==
    [lower_corner_x |-> d.lower_corner_x, lower_corner_y |-> d.lower_corner_y,
     upper_corner_x |-> d.upper_corner_x, upper_corner_y |-> d.upper_corner_y,
     grid_low_x |-> 0, grid_low_y |-> 0,
     grid_high_x |-> d.grid_high_x, grid_high_y |-> d.grid_high_y,
     start_x |-> d.start_x, start_y |-> d.start_y,
     mesh_code |-> d.mesh_code,
     elevation_list |-> IF d.has_tuple_list
                        THEN parse_tuple_list(render_tuple_list(d.records), 1, flag)
                        ELSE <<>>,
     has_lower_corner |-> d.has_lower_corner,
     has_upper_corner |-> d.has_upper_corner,
     has_grid_envelope |-> d.has_grid_envelope,
     has_start_point |-> d.has_start_point,
     has_mesh_code |-> d.has_mesh_code,
     has_tuple_list |-> d.has_tuple_list]

\* XmlParser::Impl::Impl: parse_all(xml_content, true)
XmlParser_Impl(d) == parse_all(d, TRUE)

\* double to int, as in int start_x = start->x: toward zero
to_int(t) == IF t >= 0 THEN t \div 10 ELSE -((-t) \div 10)

\* the (y, x, index) of the fill loop's writes from (y, x, index) on, in order
RECURSIVE np_fill(_, _, _, _, _, _)
np_fill(y, x, index, x_length, y_length, n) ==
    IF ~(y < y_length /\ index < n) THEN <<>>
    ELSE IF x < x_length
         THEN <<[y |-> y, x |-> x, index |-> index]>>
              \o np_fill(y, x + 1, index + 1, x_length, y_length, n)
         ELSE np_fill(y + 1, 0, index, x_length, y_length, n)

flat_index_column_major(row, col, width) == col * width + row

\* FlatArray2D::operator(): the offset of (row, col) in data_
flat_index(row, col, width) == row * width + col

\* the buffer after the writes ws; a write outside the buffer leaves it as it is
RECURSIVE apply_writes(_, _, _, _)
apply_writes(buf, ws, elevation, width) ==
    IF ws = <<>> THEN buf
    ELSE LET w    == Head(ws)
             flat == flat_index(w.y, w.x, width)
         IN  apply_writes(IF flat >= 0 /\ flat < Len(buf)
                          THEN [buf EXCEPT ![flat + 1] = elevation[w.index + 1]]
                          ELSE buf,
                          Tail(ws), elevation, width)

\* FlatArray2D::to_2d_vector
to_2d_vector(buf, height, width) ==
    [r \in 1..height |-> [c \in 1..width |-> buf[(r - 1) * width + c]]]

x_length_exclusive(pd) == pd.grid_high_x - pd.grid_low_x

x_length_of(pd) == pd.grid_high_x - pd.grid_low_x + 1
y_length_of(pd) == pd.grid_high_y - pd.grid_low_y + 1

\* the writes get_np_array makes for the parsed data pd
fill_writes(pd) ==
    np_fill(to_int(pd.start_y), to_int(pd.start_x), 0,
            x_length_of(pd), y_length_of(pd), Len(pd.elevation_list))

write_in_buffer(w, pd) ==
    LET flat == flat_index(w.y, w.x, x_length_of(pd))
    IN  flat >= 0 /\ flat < y_length_of(pd) * x_length_of(pd)

\* the grid after the fill loop
filled_grid(pd) ==
    LET w   == x_length_of(pd)
        h   == y_length_of(pd)
        buf == apply_writes([i \in 1..(h * w) |-> NODATA], fill_writes(pd),
                            pd.elevation_list, w)
    IN  to_2d_vector(buf, h, w)

InitGrid ==
    /\ dem_sea_at_zero \in BOOLEAN
    /\ doc \in MeshDocs
    /\ data = <<>>
    /\ np_array = <<>>
    /\ cell_writes = <<>>
    /\ ub = FALSE
    /\ gpc = "call"
    /\ ParseIdle
    /\ MergeIdle
    /\ DemIdle
    /\ PipelineIdle
    /\ FgdIdle
    /\ RsIdle
    /\ MainIdle
    /\ BlendIdle
    /\ ExtenderIdle
    /\ ConvIdle

\* dem.cpp 203: xml::XmlParser parser(xml_content)
Grid_Parse ==
    /\ gpc = "call"
    /\ data' = XmlParser_Impl(doc)
    /\ gpc' = "parsed"
    /\ UNCHANGED <<dem_sea_at_zero, doc, np_array, cell_writes, ub>>
    /\ UNCHANGED notGrid

\* dem.cpp 205-219: no tuple list, no grid envelope or no start point
Grid_ReturnEmpty ==
    /\ gpc = "parsed"
    /\ ~data.has_tuple_list \/ ~data.has_grid_envelope \/ ~data.has_start_point
    /\ np_array' = <<>>
    /\ gpc' = "done"
    /\ UNCHANGED <<dem_sea_at_zero, doc, data, cell_writes, ub>>
    /\ UNCHANGED notGrid

\* dem.cpp 221-240: the fill loop, every write inside the buffer
Grid_Fill ==
    /\ gpc = "parsed"
    /\ data.has_tuple_list /\ data.has_grid_envelope /\ data.has_start_point
    /\ \A k \in 1..Len(fill_writes(data)) : write_in_buffer(fill_writes(data)[k], data)
    /\ cell_writes' = fill_writes(data)
    /\ np_array' = filled_grid(data)
    /\ gpc' = "done"
    /\ UNCHANGED <<dem_sea_at_zero, doc, data, ub>>
    /\ UNCHANGED notGrid

\* dem.cpp 233: a write outside the buffer is undefined behaviour; the call either
\* ends the process or returns the grid with its other writes made
Grid_FillOutside ==
    /\ gpc = "parsed"
    /\ data.has_tuple_list /\ data.has_grid_envelope /\ data.has_start_point
    /\ \E k \in 1..Len(fill_writes(data)) : ~write_in_buffer(fill_writes(data)[k], data)
    /\ cell_writes' = fill_writes(data)
    /\ ub' = TRUE
    /\ \/ gpc' = "crashed" /\ np_array' = <<>>
       \/ gpc' = "done" /\ np_array' = filled_grid(data)
    /\ UNCHANGED <<dem_sea_at_zero, doc, data>>
    /\ UNCHANGED notGrid

NextGrid == Grid_Parse \/ Grid_ReturnEmpty \/ Grid_Fill \/ Grid_FillOutside

SpecGrid == InitGrid /\ [][NextGrid]_vars

(***************************************************************************)
(* Properties of the mesh grid builder                                      *)
(***************************************************************************)
\* a call of get_np_array that got past its checks and returned its grid
GridBuilt ==
    /\ gpc = "done" /\ ~ub
    /\ data.has_tuple_list /\ data.has_grid_envelope /\ data.has_start_point

NoSentinelSample == \A k \in 1..Len(data.elevation_list) : data.elevation_list[k] # NODATA

NonSentinelCells(grid) ==
    {rc \in (1..Len(grid)) \X (1..x_length_of(data)) : grid[rc[1]][rc[2]] # NODATA}

\* the row-major position of the first cell the fill can write
FirstCell == to_int(data.start_y) * x_length_of(data) + Min(to_int(data.start_x), x_length_of(data))

CellAt(grid, pos) == grid[(pos \div x_length_of(data)) + 1][(pos % x_length_of(data)) + 1]

\* C1 as stated: a built grid of a stream of n samples, none the sentinel, has
\* exactly min(x_length*y_length, n) non-sentinel cells.
C1_CountIsMinOfGridAndStream ==
    (GridBuilt /\ NoSentinelSample) =>
        Cardinality(NonSentinelCells(np_array))
            = Min(x_length_of(data) * y_length_of(data), Len(data.elevation_list))

StartNonNegative == data.start_x >= 0 /\ data.start_y >= 0

\* C1, amended: for a start point of non-negative row and column, a built grid
\* has exactly min(cells from the start cell to the end of the grid in row-major
\* order, n) non-sentinel cells, and they hold the samples in stream order from
\* the start cell on, later rows from column 0.
C1_FilledFromStartCell ==
    (GridBuilt /\ NoSentinelSample /\ StartNonNegative) =>
        LET cells == x_length_of(data) * y_length_of(data)
            cnt   == Min(Max(0, cells - FirstCell), Len(data.elevation_list))
        IN  /\ Cardinality(NonSentinelCells(np_array)) = cnt
            /\ \A k \in 0..(cnt - 1) :
                   CellAt(np_array, FirstCell + k) = data.elevation_list[k + 1]

\* C1 witness: a two by two grid built from the start cell (row 1, column 1) and
\* three samples: one cell is filled, fewer than min(4, 3)
C1_Witness ==
    /\ GridBuilt /\ NoSentinelSample
    /\ to_int(data.start_x) = 1 /\ to_int(data.start_y) = 1
    /\ x_length_of(data) = 2 /\ y_length_of(data) = 2
    /\ Len(data.elevation_list) = 3
    /\ Len(cell_writes) = 1
    /\ np_array = <<<<NODATA, NODATA>>, <<NODATA, data.elevation_list[1]>>>>

\* C27: every cell write of get_np_array, for every grid envelope, start point
\* and sample stream, targets a row in [0, y_length) and a column in
\* [0, x_length) of the allocated grid.
C27_WritesInsideGrid ==
    \A k \in 1..Len(cell_writes) :
        /\ cell_writes[k].y >= 0 /\ cell_writes[k].y < y_length_of(data)
        /\ cell_writes[k].x >= 0 /\ cell_writes[k].x < x_length_of(data)

AllSentinel(grid, height, width) ==
    /\ Len(grid) = height
    /\ \A r \in 1..height : Len(grid[r]) = width /\ \A c \in 1..width : grid[r][c] = NODATA

\* C2 as stated: every mesh with declared dimensions and an empty sample stream
\* gets a grid of the declared dimensions with every cell -9999.0.
C2_EmptyStreamAllSentinel ==
    (gpc = "done" /\ data.has_grid_envelope /\ Len(data.elevation_list) = 0) =>
        AllSentinel(np_array, doc.grid_high_y + 1, doc.grid_high_x + 1)

\* C2, amended: a mesh with a tuple list of zero samples, a grid envelope and a
\* start point gets a grid of the declared dimensions with every cell -9999.0.
C2_EmptyTupleListAllSentinel ==
    (gpc = "done" /\ data.has_tuple_list /\ data.has_grid_envelope /\ data.has_start_point
         /\ Len(data.elevation_list) = 0) =>
        AllSentinel(np_array, doc.grid_high_y + 1, doc.grid_high_x + 1)

\* C2 witness: a two by two all-sentinel grid returned for an empty tuple list
C2_Witness ==
    /\ gpc = "done" /\ doc.has_tuple_list /\ doc.has_grid_envelope /\ doc.has_start_point
    /\ doc.records = <<>> /\ data.elevation_list = <<>>
    /\ doc.grid_high_x = 1 /\ doc.grid_high_y = 1
    /\ np_array = <<<<NODATA, NODATA>>, <<NODATA, NODATA>>>>

\* C4 as stated: with Dem's sea_at_zero false, a sea-tagged record of raw value
\* -9999.0 reaches its grid cell as -9999.0.
C4_OffKeepsSeaSentinel ==
    (GridBuilt /\ ~dem_sea_at_zero) =>
        \A k \in 1..Len(cell_writes) :
            doc.records[cell_writes[k].index + 1] = [type |-> SeaSurface, text |-> TextNoData]
                => np_array[cell_writes[k].y + 1][cell_writes[k].x + 1] = NODATA

(***************************************************************************)
(* merge_tif_files                                                          *)
(* Coordinates and pixel sizes are whole map units; pixel values are tenths *)
(* or NaN.  geo_transform is 1-based here: geo_transform[1] is the source's *)
(* geo_transform[0].  A file name is the sequence of its parts.             *)
(***************************************************************************)
\* std::numeric_limits<float>::quiet_NaN(), a value outside the tenths in use
NaN == -77777777

\* std::numeric_limits<double>::max(); lowest() is its negation
DBL_MAX == 1000000

\* value != src.nodata_value on floats: true whenever either side is NaN
float_ne(a, b) == a = NaN \/ b = NaN \/ a # b

\* std::ceil(n / d) and std::round(n / d) for d > 0
ceil_as_round(n, d) ==
    IF n >= 0 THEN (2 * n + d) \div (2 * d) ELSE -((2 * (-n) + d) \div (2 * d))

Ceil(n, d) == IF n >= 0 THEN (n + d - 1) \div d ELSE -((-n) \div d)
Round(n, d) == IF n >= 0 THEN (2 * n + d) \div (2 * d) ELSE -((2 * (-n) + d) \div (2 * d))

\* std::string::find from position from: the position of pat in name, 0 for npos
RECURSIVE string_find(_, _, _)
string_find(name, pat, from) ==
    IF from + Len(pat) - 1 > Len(name) THEN 0
    ELSE IF SubSeq(name, from, from + Len(pat) - 1) = pat THEN from
         ELSE string_find(name, pat, from + 1)

pattern1(dem_type) == <<"-", "DEM", dem_type, ".tif">>
pattern2(dem_type) == <<"DEM", dem_type, "-">>

\* lines 679-680: the file name holds pattern1 or pattern2
name_matches_any_tif(filename, dem_type) == filename[Len(filename)] = ".tif"

name_matches(filename, dem_type) ==
    \/ string_find(filename, pattern1(dem_type), 1) # 0
    \/ string_find(filename, pattern2(dem_type), 1) # 0

\* eight-digit parts, and their order as strings
DateParts == {"20240101", "20250101"}
date_rank(d) == CASE d = "" -> 0 [] d = "20240101" -> 1 [] d = "20250101" -> 2

\* lines 683-698: the date after pattern2 in the name, "" when there is none
date_of(filename, dem_type) ==
    LET pos == string_find(filename, pattern2(dem_type), 1)
    IN  IF pos # 0 /\ pos + 3 <= Len(filename) /\ filename[pos + 3] \in DateParts
        THEN filename[pos + 3]
        ELSE ""

\* lines 674-701: the directory walk over the entries from k on
RECURSIVE collect_files(_, _, _, _)
collect_files(entries, k, dem_type, acc) ==
    IF k > Len(entries) THEN acc
    ELSE LET entry    == entries[k]
             filename == entry.name
         IN  IF ~entry.regular \/ ~name_matches(filename, dem_type)
             THEN collect_files(entries, k + 1, dem_type, acc)
             ELSE collect_files(entries, k + 1, dem_type,
                      [input_files |-> Append(acc.input_files, entry),
                       latest_date |-> IF date_of(filename, dem_type) # ""
                                          /\ date_rank(date_of(filename, dem_type))
                                                 > date_rank(acc.latest_date)
                                       THEN date_of(filename, dem_type)
                                       ELSE acc.latest_date])

\* what read_geotiff returns for a raster file of two pixels in one row
GeoTiffData(x0, y0, epsg, tagged, nodata, pixels) ==
    [width |-> 2, height |-> 1,
     geo_transform |-> <<x0, 1, 0, y0, 0, -1>>,
     epsg |-> epsg,
     nodata_value |-> IF tagged THEN nodata ELSE NaN,
     has_nodata |-> tagged,
     data |-> pixels]

\* upper-left corners and coordinate systems of the rasters in the folder
Origins == {<<0, 1>>, <<1, 1>>, <<2, 1>>, <<0, 2>>}
EpsgCodes == {4326, 3857}

\* the rasters, by no-data tag and pixels, each under its file name
RasterFiles ==
    { [name |-> f.name, regular |-> TRUE, readable |-> TRUE, dem |-> "5A",
       raster |-> GeoTiffData(o[1], o[2], e, f.tagged, f.nodata, f.pixels)] :
        f \in { [name |-> <<"a", "-", "DEM", "5A", ".tif">>,
                 tagged |-> TRUE, nodata |-> NODATA, pixels |-> <<50, 70>>],
                [name |-> <<"b", "-", "DEM", "5A", "-", "20240101", ".tif">>,
                 tagged |-> TRUE, nodata |-> NODATA, pixels |-> <<50, NODATA>>],
                [name |-> <<"c", "-", "DEM", "5A", "-", "20250101", ".tif">>,
                 tagged |-> TRUE, nodata |-> NODATA, pixels |-> <<NODATA, 70>>],
                [name |-> <<"d", "-", "DEM", "5A", ".tif">>,
                 tagged |-> TRUE, nodata |-> NaN, pixels |-> <<NaN, 70>>],
                [name |-> <<"e", "-", "DEM", "5A", ".tif">>,
                 tagged |-> FALSE, nodata |-> NaN, pixels |-> <<NODATA, 70>>] },
        o \in Origins, e \in EpsgCodes }

\* the other entries: a raster of another DEM type, a file that cannot be
\* opened, a directory with a matching name, a file of another kind
OtherEntries ==
    { [name |-> <<"f", "-", "DEM", "5B", ".tif">>, regular |-> TRUE, readable |-> TRUE,
       dem |-> "5B", raster |-> GeoTiffData(0, 1, 4326, TRUE, NODATA, <<50, 70>>)],
      [name |-> <<"g", "-", "DEM", "5A", ".tif">>, regular |-> TRUE, readable |-> FALSE,
       dem |-> "5A", raster |-> "none"],
      [name |-> <<"h", "-", "DEM", "5A", ".tif">>, regular |-> FALSE, readable |-> FALSE,
       dem |-> "none", raster |-> "none"],
      [name |-> <<"readme", ".txt">>, regular |-> TRUE, readable |-> TRUE,
       dem |-> "none", raster |-> "none"] }

FolderEntries == RasterFiles \cup OtherEntries

MergeConfigs ==
    { [dem_type |-> "5A", resolution |-> 0, output_file |-> ""],
      [dem_type |-> "5A", resolution |-> 2, output_file |-> ""],
      [dem_type |-> "5A", resolution |-> 3, output_file |-> "out.tif"],
      [dem_type |-> "5B", resolution |-> 0, output_file |-> ""] }

\* lines 759-767 without the test of the coordinate system
resolution_applies_any_system(resolution, epsg) == resolution > 0

\* lines 759-767: the pixel size, set to config.resolution for projected systems
resolution_applies(resolution, epsg) ==
    /\ resolution > 0
    /\ \/ epsg = 3857 \/ epsg = 2451
       \/ (epsg >= 32601 /\ epsg <= 32660)
       \/ (epsg >= 32701 /\ epsg <= 32760)

\* lines 796-797
dst_col_start(src, loc) == Round(src.geo_transform[1] - loc.min_x, loc.pixel_width)
dst_row_start(src, loc) == Round(loc.max_y - src.geo_transform[4], loc.pixel_height)

\* lines 799-812: the pixel loop from pixel i (row-major) on
RECURSIVE place_pixels(_, _, _, _, _)
place_pixels(out, src, i, row0, col0) ==
    IF i >= src.width * src.height THEN out
    ELSE LET row     == i \div src.width
             col     == i % src.width
             dst_row == row0 + row
             dst_col == col0 + col
             value   == src.data[row * src.width + col + 1]
         IN  place_pixels(
                 IF /\ dst_row >= 0 /\ dst_row < out.height
                    /\ dst_col >= 0 /\ dst_col < out.width
                    /\ (~src.has_nodata \/ float_ne(value, src.nodata_value))
                 THEN [out EXCEPT !.data[dst_row * out.width + dst_col + 1] = value]
                 ELSE out,
                 src, i + 1, row0, col0)

\* lines 734-755: the bounding box grown by one raster, and the pixel size,
\* coordinate system and no-data value taken while pixel_width is still 0.0
read_dataset(loc, d) ==
    LET x0    == d.geo_transform[1]
        y0    == d.geo_transform[4]
        x1    == x0 + d.width * d.geo_transform[2]
        y1    == y0 + d.height * d.geo_transform[6]
        first == loc.pixel_width = 0
    IN  [loc EXCEPT !.min_x = Min(loc.min_x, Min(x0, x1)),
                    !.max_x = Max(loc.max_x, Max(x0, x1)),
                    !.min_y = Min(loc.min_y, Min(y0, y1)),
                    !.max_y = Max(loc.max_y, Max(y0, y1)),
                    !.pixel_width = IF first THEN d.geo_transform[2] ELSE @,
                    !.pixel_height = IF first THEN -d.geo_transform[6] ELSE @,
                    !.epsg = IF first THEN d.epsg ELSE @,
                    !.nodata_value = IF first /\ d.has_nodata THEN d.nodata_value ELSE @,
                    !.datasets = Append(@, d),
                    !.next = @ + 1]

\* lines 758-767: the resolution override
adjust_resolution(loc, cfg) ==
    IF resolution_applies(cfg.resolution, loc.epsg)
    THEN [loc EXCEPT !.pixel_width = cfg.resolution, !.pixel_height = cfg.resolution]
    ELSE loc

\* lines 769-789: the output size and the canvas filled with the no-data value
create_output(loc) ==
    LET out_width  == Max(Ceil(loc.max_x - loc.min_x, loc.pixel_width), 1)
        out_height == Max(Ceil(loc.max_y - loc.min_y, loc.pixel_height), 1)
    IN  [width |-> out_width, height |-> out_height,
         data |-> [i \in 1..(out_width * out_height) |-> loc.nodata_value],
         geo_transform |-> <<loc.min_x, loc.pixel_width, 0, loc.max_y, 0, -loc.pixel_height>>,
         epsg |-> loc.epsg, nodata_value |-> loc.nodata_value, has_nodata |-> TRUE]

\* lines 816-825
output_file_name(cfg, latest_date) ==
    IF cfg.output_file # "" THEN <<cfg.output_file>>
    ELSE IF latest_date # ""
         THEN <<"FG-GML-merged-DEM", cfg.dem_type, "-", latest_date, ".tif">>
         ELSE <<"merged_output_", ToString(cfg.resolution), "m_", cfg.dem_type, ".tif">>

\* the locals of merge_tif_files before the first file is read (lines 712-724)
MergeLocals ==
    [input_files |-> <<>>, latest_date |-> "", datasets |-> <<>>,
     min_x |-> DBL_MAX, max_x |-> -DBL_MAX, min_y |-> DBL_MAX, max_y |-> -DBL_MAX,
     pixel_width |-> 0, pixel_height |-> 0, epsg |-> 0, nodata_value |-> NODATA,
     next |-> 1, placed |-> 0]

\* lines 726-756: the read loop over the files from k on
RECURSIVE read_datasets(_, _, _)
read_datasets(files, k, loc) ==
    IF k > Len(files) THEN loc
    ELSE read_datasets(files, k + 1, read_dataset(loc, files[k].raster))

\* lines 792-813: the placement loop over the datasets from k on
RECURSIVE place_datasets(_, _, _)
place_datasets(out, loc, k) ==
    IF k > Len(loc.datasets) THEN out
    ELSE LET src == loc.datasets[k]
         IN  place_datasets(
                 place_pixels(out, src, 0, dst_row_start(src, loc), dst_col_start(src, loc)),
                 loc, k + 1)

\* lines 657-834: the raster merge_tif_files hands to write_geotiff for the
\* directory entries in the given order of discovery
merged_raster(entries, cfg) ==
    LET found == collect_files(entries, 1, cfg.dem_type,
                               [input_files |-> <<>>, latest_date |-> ""])
    IN  IF found.input_files = <<>>
           \/ \E k \in 1..Len(found.input_files) : ~found.input_files[k].readable
        THEN [failed |-> TRUE]
        ELSE LET loc == adjust_resolution(read_datasets(found.input_files, 1, MergeLocals), cfg)
             IN  place_datasets(create_output(loc), loc, 1)

InitMerge ==
    /\ config \in MergeConfigs
    /\ \E exists \in BOOLEAN, writable \in BOOLEAN :
           \E entries \in SeqsUpTo(FolderEntries, MaxFiles) :
               /\ (~exists => entries = <<>> /\ writable)
               /\ folder = [exists |-> exists, entries |-> entries, writable |-> writable]
    /\ m = MergeLocals
    /\ output = "none"
    /\ canvas_before = <<>>
    /\ ec = "none"
    /\ merge_result = "none"
    /\ written = "none"
    /\ mpc = "start"
    /\ ParseIdle
    /\ GridIdle
    /\ DemIdle
    /\ PipelineIdle
    /\ FgdIdle
    /\ RsIdle
    /\ MainIdle
    /\ BlendIdle
    /\ ExtenderIdle
    /\ ConvIdle

\* lines 662-665: the input folder does not exist
Merge_NoFolder ==
    /\ mpc = "start"
    /\ ~folder.exists
    /\ ec' = "no_such_file_or_directory"
    /\ merge_result' = FALSE
    /\ mpc' = "done"
    /\ UNCHANGED <<folder, config, m, output, canvas_before, written>>
    /\ UNCHANGED notMerge

\* lines 667-709: the directory walk, and the failure when nothing matched
Merge_Collect ==
    /\ mpc = "start"
    /\ folder.exists
    /\ LET found == collect_files(folder.entries, 1, config.dem_type,
                                  [input_files |-> <<>>, latest_date |-> ""])
       IN  /\ m' = [m EXCEPT !.input_files = found.input_files,
                             !.latest_date = found.latest_date]
           /\ IF found.input_files = <<>>
              THEN /\ ec' = "no_such_file_or_directory"
                   /\ merge_result' = FALSE
                   /\ mpc' = "done"
              ELSE /\ mpc' = "read"
                   /\ UNCHANGED <<ec, merge_result>>
    /\ UNCHANGED <<folder, config, output, canvas_before, written>>
    /\ UNCHANGED notMerge

\* lines 726-732 with the failed file skipped while another raster is at hand
Merge_ReadFails_skips ==
    /\ mpc = "read"
    /\ m.next <= Len(m.input_files)
    /\ ~m.input_files[m.next].readable
    /\ IF m.datasets # <<>> \/ m.next < Len(m.input_files)
       THEN /\ m' = [m EXCEPT !.next = @ + 1]
            /\ UNCHANGED <<ec, merge_result, mpc>>
       ELSE /\ ec' = "io_error"
            /\ merge_result' = FALSE
            /\ mpc' = "done"
            /\ UNCHANGED m
    /\ UNCHANGED <<folder, config, output, canvas_before, written>>
    /\ UNCHANGED notMerge

\* lines 726-732: a file read_geotiff cannot read
Merge_ReadFails ==
    /\ mpc = "read"
    /\ m.next <= Len(m.input_files)
    /\ ~m.input_files[m.next].readable
    /\ ec' = "io_error"
    /\ merge_result' = FALSE
    /\ mpc' = "done"
    /\ UNCHANGED <<folder, config, m, output, canvas_before, written>>
    /\ UNCHANGED notMerge

\* lines 726-755: one file read, the bounding box and the first file's settings
Merge_Read ==
    /\ mpc = "read"
    /\ m.next <= Len(m.input_files)
    /\ m.input_files[m.next].readable
    /\ m' = read_dataset(m, m.input_files[m.next].raster)
    /\ UNCHANGED <<folder, config, output, canvas_before, ec, merge_result, written, mpc>>
    /\ UNCHANGED notMerge

\* lines 757-789: the resolution override, the output size and the empty canvas
Merge_Size ==
    /\ mpc = "read"
    /\ m.next > Len(m.input_files)
    /\ m' = [adjust_resolution(m, config) EXCEPT !.next = 1]
    /\ output' = create_output(adjust_resolution(m, config))
    /\ mpc' = "place"
    /\ UNCHANGED <<folder, config, canvas_before, ec, merge_result, written>>
    /\ UNCHANGED notMerge

\* lines 792-813: one dataset placed on the canvas
Merge_Place ==
    /\ mpc = "place"
    /\ m.next <= Len(m.datasets)
    /\ LET src == m.datasets[m.next]
       IN  output' = place_pixels(output, src, 0, dst_row_start(src, m), dst_col_start(src, m))
    /\ canvas_before' = output.data
    /\ m' = [m EXCEPT !.placed = m.next, !.next = @ + 1]
    /\ UNCHANGED <<folder, config, ec, merge_result, written, mpc>>
    /\ UNCHANGED notMerge

\* lines 815-833: the output file name and write_geotiff
Merge_Write ==
    /\ mpc = "place"
    /\ m.next > Len(m.datasets)
    /\ IF folder.writable
       THEN /\ written' = [name |-> output_file_name(config, m.latest_date), raster |-> output]
            /\ merge_result' = TRUE
            /\ UNCHANGED ec
       ELSE /\ ec' = "io_error"
            /\ merge_result' = FALSE
            /\ UNCHANGED written
    /\ mpc' = "done"
    /\ UNCHANGED <<folder, config, m, output, canvas_before>>
    /\ UNCHANGED notMerge

NextMerge ==
    \/ Merge_NoFolder \/ Merge_Collect \/ Merge_ReadFails \/ Merge_Read
    \/ Merge_Size \/ Merge_Place \/ Merge_Write

SpecMerge == InitMerge /\ [][NextMerge]_vars

(***************************************************************************)
(* Properties of merge_tif_files                                            *)
(***************************************************************************)
\* a pixel that its own raster declares to be no-data
IsNoDataPixel(src, value) == src.has_nodata /\ value = src.nodata_value

\* the canvas position (1-based, row-major) of pixel i of src, 0 when outside
CanvasCell(src, i) ==
    LET dst_row == dst_row_start(src, m) + (i \div src.width)
        dst_col == dst_col_start(src, m) + (i % src.width)
    IN  IF dst_row >= 0 /\ dst_row < output.height /\ dst_col >= 0 /\ dst_col < output.width
        THEN dst_row * output.width + dst_col + 1
        ELSE 0

\* C5 as stated: once the second of two overlapping rasters is placed, every
\* canvas cell where the first wrote a real value and the second has a no-data
\* pixel still holds the first raster's value.
C5_NoDataKeepsFirstValue ==
    (mpc = "place" /\ m.placed = 2) =>
        LET first  == m.datasets[1]
            second == m.datasets[2]
        IN  \A i \in 0..(first.width * first.height - 1),
               j \in 0..(second.width * second.height - 1) :
                (/\ CanvasCell(first, i) # 0
                 /\ CanvasCell(first, i) = CanvasCell(second, j)
                 /\ ~IsNoDataPixel(first, first.data[i + 1])
                 /\ IsNoDataPixel(second, second.data[j + 1]))
                    => output.data[CanvasCell(first, i)] = first.data[i + 1]

\* the folder holds no regular file written for the requested DEM type
NoMatchingFile ==
    \A k \in 1..Len(folder.entries) :
        ~(folder.entries[k].regular /\ folder.entries[k].dem = config.dem_type)

\* C9: when no file under the input folder matches either pattern, the call
\* returns false with no_such_file_or_directory and never writes a raster.
C9_NoMatchFails ==
    NoMatchingFile =>
        /\ written = "none"
        /\ mpc = "done" => (merge_result = FALSE /\ ec = "no_such_file_or_directory")

\* C9 witness: a call over an existing folder of two entries, neither a file of
\* the requested type, has returned not-found
C9_Witness ==
    /\ mpc = "done" /\ folder.exists /\ Len(folder.entries) = 2 /\ NoMatchingFile
    /\ \E k \in 1..2 : folder.entries[k].dem = "5B" /\ config.dem_type = "5A"
    /\ merge_result = FALSE /\ ec = "no_such_file_or_directory" /\ written = "none"

\* the union bounding box of the rasters read, from their corners
ReadCorners(axis) ==
    UNION { LET d == m.datasets[k]
            IN  IF axis = "x"
                THEN {d.geo_transform[1], d.geo_transform[1] + d.width * d.geo_transform[2]}
                ELSE {d.geo_transform[4], d.geo_transform[4] + d.height * d.geo_transform[6]} :
            k \in 1..Len(m.datasets) }

Extent(axis) ==
    LET cs == ReadCorners(axis)
    IN  (CHOOSE hi \in cs : \A c \in cs : c <= hi) - (CHOOSE lo \in cs : \A c \in cs : lo <= c)

\* the output canvas exists: Merge_Size has run
HasCanvas == mpc = "place" \/ (mpc = "done" /\ m.placed > 0)

\* write_geotiff has written the output file
OutputWritten == mpc = "done" /\ merge_result = TRUE

\* the canvas as Merge_Size leaves it, before any raster is placed
CanvasCreated == mpc = "place" /\ m.next = 1

AllCellsNoData ==
    /\ Len(output.data) = output.width * output.height
    /\ \A i \in 1..Len(output.data) : output.data[i] = m.nodata_value

\* C21 as stated: the merge output is round(extent / pixel size) pixels wide
\* and high, each at least 1, and every cell starts as the no-data value.
C21_SizeIsRounded ==
    CanvasCreated =>
        /\ output.width = Max(Round(Abs(Extent("x")), m.pixel_width), 1)
        /\ output.height = Max(Round(Abs(Extent("y")), m.pixel_height), 1)
        /\ AllCellsNoData

\* the least number of pixels of the given size, at least one, that covers the extent
CoversExactly(n, extent, pixel) ==
    /\ n >= 1
    /\ n * pixel >= extent
    /\ n > 1 => (n - 1) * pixel < extent

\* C21 amended: the merge output is ceil(extent / pixel size) pixels wide and
\* high, the least whole number of pixels that covers the union bounding box,
\* each at least 1, and every cell starts as the no-data value.
C21_SizeIsCeiling ==
    CanvasCreated =>
        /\ CoversExactly(output.width, Extent("x"), m.pixel_width)
        /\ CoversExactly(output.height, Extent("y"), m.pixel_height)
        /\ AllCellsNoData

\* C21 witness: two rasters four units apart in all, merged at three units a
\* pixel, give a canvas two pixels wide where rounding would give one
C21_Witness ==
    /\ CanvasCreated
    /\ Len(m.datasets) = 2
    /\ Extent("x") = 4 /\ m.pixel_width = 3
    /\ output.width = 2 /\ output.height = 1
    /\ Round(Extent("x"), m.pixel_width) = 1
    /\ output.data = <<m.nodata_value, m.nodata_value>>

\* the regular files of the folder whose names match the requested DEM type
Matched == { k \in 1..Len(folder.entries) :
               folder.entries[k].regular /\ folder.entries[k].dem = config.dem_type }

UnreadableMatched == { k \in Matched : ~folder.entries[k].readable }

\* the matched files that come before the first unreadable one
ReadableBefore ==
    { k \in Matched : \A u \in UnreadableMatched : k < u }

\* C22 as stated: a matched file that cannot be read is skipped, and the call
\* still merges the remaining matched files into the output and succeeds.
C22_UnreadableFileSkipped ==
    (mpc = "done" /\ folder.exists /\ folder.writable
        /\ UnreadableMatched # {} /\ UnreadableMatched # Matched) =>
            /\ merge_result = TRUE
            /\ HasCanvas

\* C22 amended: a matched file that cannot be read ends the merge; no file
\* after it is read, no output raster is written, and the call returns false
\* with io_error.
C22_UnreadableFileAborts ==
    UnreadableMatched # {} =>
        /\ Len(m.datasets) <= Cardinality(ReadableBefore)
        /\ ~HasCanvas
        /\ ~OutputWritten
        /\ mpc = "done" => (merge_result = FALSE /\ ec = "io_error" /\ written = "none")

\* C22 witness: an unreadable raster file followed by a readable one of the
\* same type; the call has returned io_error and the second was never read
C22_Witness ==
    /\ mpc = "done" /\ folder.writable
    /\ Len(folder.entries) = 2
    /\ Matched = {1, 2} /\ UnreadableMatched = {1}
    /\ m.datasets = <<>>
    /\ merge_result = FALSE /\ ec = "io_error" /\ written = "none" /\ output = "none"

\* the allow-list: Web Mercator, plane rectangular system IX, the UTM zones
MetricSystems == {3857, 2451} \cup (32601..32660) \cup (32701..32760)

\* the first matched file in the order of discovery
FirstMatched == folder.entries[CHOOSE k \in Matched : \A j \in Matched : k <= j].raster

OverrideExpected == config.resolution > 0 /\ FirstMatched.epsg \in MetricSystems

\* C23: the output's pixel width and height are both the override resolution
\* exactly when an override is given and the first matched file's coordinate
\* system is in the allow-list; otherwise they are the first file's own pixel
\* size; either way the call succeeds once the output can be written.
C23_OverrideOnlyForMetricSystems ==
    HasCanvas =>
        /\ OverrideExpected =>
               /\ output.geo_transform[2] = config.resolution
               /\ output.geo_transform[6] = -config.resolution
        /\ ~OverrideExpected =>
               /\ output.geo_transform[2] = FirstMatched.geo_transform[2]
               /\ output.geo_transform[6] = FirstMatched.geo_transform[6]
        /\ (mpc = "done" /\ folder.writable) =>
               /\ OutputWritten
               /\ written.raster = output

\* C23 witness: an override of 2 is given, the first file is in EPSG:4326 and
\* the second in EPSG:3857; the merge has succeeded at the first file's pixel size
C23_Witness ==
    /\ mpc = "done" /\ merge_result = TRUE
    /\ config.resolution = 2
    /\ Len(m.datasets) = 2
    /\ m.datasets[1].epsg = 4326 /\ m.datasets[2].epsg = 3857
    /\ written.raster.geo_transform[2] = 1 /\ written.raster.geo_transform[6] = -1
    /\ written.raster.epsg = 4326

\* the orders in which a directory walk can deliver the same entries
Orders(entries) ==
    LET n == Len(entries)
    IN  { [i \in 1..n |-> entries[f[i]]] :
            f \in { g \in [1..n -> 1..n] : \A i, j \in 1..n : g[i] = g[j] => i = j } }

\* C30: the raster a successful merge writes (size, pixel size, coordinate
\* system, no-data value, every cell) is the one the call writes for every
\* other order of discovery of the same directory entries.
C30_IndependentOfDiscoveryOrder ==
    OutputWritten =>
        \A entries \in Orders(folder.entries) : merged_raster(entries, config) = written.raster

(***************************************************************************)
(* Dem::get_xml_content from check_mesh_codes on, and                       *)
(* Converter::make_data_for_geotiff with combine_meta_data_and_contents.    *)
(* Corners and bounds are whole map units; a quotient of two of them is     *)
(* kept as numerator and denominator.                                       *)
(***************************************************************************)
DigitChars == <<"0", "1", "2", "3", "4", "5", "6", "7", "8", "9">>

\* the text of the two-digit value with digits a and b
Numeral(a, b) ==
    [chars |-> <<DigitChars[a + 1], DigitChars[b + 1]>>, ok |-> TRUE, num |-> Tenths(10 * a + b)]

\* a mesh document: lower corner (lat, lng), x_length by y_length cells of span
\* map units each, cell k holding the value with digits tag and k
MosaicDoc(tag, lat, lng, x_length, y_length, span, has_start, has_code, sentinel_first) ==
    [has_tuple_list |-> TRUE, has_grid_envelope |-> TRUE, has_start_point |-> has_start,
     grid_high_x |-> x_length - 1, grid_high_y |-> y_length - 1,
     start_x |-> 0, start_y |-> 0,
     records |-> [k \in 1..(x_length * y_length) |->
                     IF k = 1 /\ sentinel_first
                     THEN [type |-> Ground, text |-> TextNoData]
                     ELSE [type |-> Ground, text |-> Numeral(tag, k)]],
     has_lower_corner |-> TRUE, lower_corner_x |-> lat, lower_corner_y |-> lng,
     has_upper_corner |-> TRUE,
     upper_corner_x |-> lat + y_length * span, upper_corner_y |-> lng + x_length * span,
     has_mesh_code |-> has_code, mesh_code |-> IF has_code THEN DigitChars[tag + 1] ELSE ""]

\* the documents of a batch
MosaicDocs ==
    { MosaicDoc(1, 0, 0, 2, 2, 2, TRUE, TRUE, FALSE),
      MosaicDoc(2, 0, 4, 2, 2, 2, TRUE, TRUE, FALSE),
      MosaicDoc(3, 4, 4, 2, 2, 2, TRUE, TRUE, FALSE),
      MosaicDoc(4, 0, 2, 2, 2, 2, TRUE, TRUE, FALSE),
      MosaicDoc(5, 0, 1, 2, 2, 2, TRUE, TRUE, FALSE),
      MosaicDoc(6, 0, 0, 2, 2, 2, TRUE, TRUE, TRUE),
      MosaicDoc(7, 2, 2, 2, 2, 2, TRUE, TRUE, FALSE),
      MosaicDoc(8, 0, 4, 2, 2, 2, TRUE, FALSE, FALSE),
      MosaicDoc(9, 0, 0, 2, 2, 2, FALSE, TRUE, FALSE),
      MosaicDoc(0, 4, 4, 1, 1, 4, TRUE, TRUE, FALSE) }

\* a value-initialized Metadata
DefaultMetadata ==
    [mesh_code |-> "", lower_corner_x |-> 0, lower_corner_y |-> 0,
     upper_corner_x |-> 0, upper_corner_y |-> 0, x_length |-> 0, y_length |-> 0,
     start_x |-> 0, start_y |-> 0]

\* Dem::format_metadata
format_metadata(xml_content, mesh_code) ==
    LET pd == XmlParser_Impl(xml_content)
    IN  [mesh_code |-> mesh_code,
         lower_corner_x |-> IF pd.has_lower_corner THEN pd.lower_corner_x ELSE 0,
         lower_corner_y |-> IF pd.has_lower_corner THEN pd.lower_corner_y ELSE 0,
         upper_corner_x |-> IF pd.has_upper_corner THEN pd.upper_corner_x ELSE 0,
         upper_corner_y |-> IF pd.has_upper_corner THEN pd.upper_corner_y ELSE 0,
         x_length |-> IF pd.has_grid_envelope THEN pd.grid_high_x - pd.grid_low_x + 1 ELSE 0,
         y_length |-> IF pd.has_grid_envelope THEN pd.grid_high_y - pd.grid_low_y + 1 ELSE 0,
         start_x |-> IF pd.has_start_point THEN pd.start_x ELSE 0,
         start_y |-> IF pd.has_start_point THEN pd.start_y ELSE 0]

\* Dem::get_np_array, for a document whose writes all fall inside the buffer
get_np_array(xml_content) ==
    LET pd == XmlParser_Impl(xml_content)
    IN  IF ~pd.has_tuple_list \/ ~pd.has_grid_envelope \/ ~pd.has_start_point
        THEN <<>>
        ELSE filled_grid(pd)

\* check_mesh_codes' loop: the mesh codes of the documents that have one
RECURSIVE mesh_codes(_)
mesh_codes(contents) ==
    IF contents = <<>> THEN <<>>
    ELSE LET pd == XmlParser_Impl(Head(contents))
         IN  (IF pd.has_mesh_code THEN <<pd.mesh_code>> ELSE <<>>) \o mesh_codes(Tail(contents))

\* store_bounds_latlng's loop from metadata k on
RECURSIVE bounds_loop(_, _, _)
bounds_loop(metas, k, b) ==
    IF k > Len(metas) THEN b
    ELSE bounds_loop(metas, k + 1,
             [min_lat |-> Min(b.min_lat, metas[k].lower_corner_x),
              max_lat |-> Max(b.max_lat, metas[k].upper_corner_x),
              min_lng |-> Min(b.min_lng, metas[k].lower_corner_y),
              max_lng |-> Max(b.max_lng, metas[k].upper_corner_y)])

DefaultBounds == [min_lat |-> 0, max_lat |-> 0, min_lng |-> 0, max_lng |-> 0]

\* Dem::store_bounds_latlng
store_bounds_latlng(metas, b) ==
    IF metas = <<>> THEN b
    ELSE bounds_loop(metas, 1, [min_lat |-> DBL_MAX, max_lat |-> -DBL_MAX,
                                min_lng |-> DBL_MAX, max_lng |-> -DBL_MAX])

\* the slot writes of the two parallel loops
store_first_empty(list, i, value) ==
    LET free == {k \in 1..Len(list) : list[k] = <<>>}
    IN  IF free = {} THEN [list EXCEPT ![i] = value]
        ELSE [list EXCEPT ![CHOOSE k \in free : \A j \in free : k <= j] = value]

store_np_array(list, i, value) == [list EXCEPT ![i] = value]
store_metadata(list, i, value) == [list EXCEPT ![i] = value]

\* std::round(n / d) for any non-zero d
trunc_div(n, d) == IF (n >= 0) = (d > 0) THEN Abs(n) \div Abs(d) ELSE -(Abs(n) \div Abs(d))

round_div(n, d) == IF d > 0 THEN Round(n, d) ELSE Round(-n, -d)

\* Converter::calc_image_size; pixel_size_x is (upper_y - lower_y) / x_length of
\* the first metadata, pixel_size_y is (lower_x - upper_x) / y_length
calc_image_size(metas, b) ==
    IF metas = <<>> THEN [total_x |-> 0, total_y |-> 0]
    ELSE [total_x |-> Round(Abs((b.max_lng - b.min_lng) * metas[1].x_length),
                            Abs(metas[1].upper_corner_y - metas[1].lower_corner_y)),
          total_y |-> Round(Abs((b.max_lat - b.min_lat) * metas[1].y_length),
                            Abs(metas[1].lower_corner_x - metas[1].upper_corner_x))]

\* std::memcpy of copy_len cells (offsets are 0-based)
memcpy_skipping_sentinel(dst, dst_start, src, src_start, copy_len) ==
    [c \in 1..Len(dst) |->
        IF c - 1 >= dst_start /\ c - 1 < dst_start + copy_len
           /\ src[src_start + (c - 1 - dst_start) + 1] # NODATA
        THEN src[src_start + (c - 1 - dst_start) + 1]
        ELSE dst[c]]

memcpy(dst, dst_start, src, src_start, copy_len) ==
    [c \in 1..Len(dst) |->
        IF c - 1 >= dst_start /\ c - 1 < dst_start + copy_len
        THEN src[src_start + (c - 1 - dst_start) + 1]
        ELSE dst[c]]

\* lines 937-964: one source row copied into its target row, clipped
copy_row(target, source, column_start, x_len, total_x) ==
    LET before        == column_start < 0
        src_start     == IF before THEN -column_start ELSE 0
        len_1         == IF before THEN x_len + column_start ELSE x_len
        dst_start     == IF before THEN 0 ELSE column_start
        len_2         == IF dst_start + len_1 > total_x THEN total_x - dst_start ELSE len_1
        src_available == Len(source) - src_start
        copy_len      == IF len_2 > src_available THEN src_available ELSE len_2
    IN  IF copy_len > 0 THEN memcpy(target, dst_start, source, src_start, copy_len)
        ELSE target

\* lines 916-965: one mesh placed on the canvas
place_mesh(canvas, metas, arrays, i, b, size) ==
    LET metadata     == metas[i]
        np           == arrays[i]
        lat_distance == metadata.lower_corner_x - b.min_lat
        lon_distance == metadata.lower_corner_y - b.min_lng
        x_coordinate == round_div(lon_distance * metas[1].x_length,
                                  metas[1].upper_corner_y - metas[1].lower_corner_y)
        y_coordinate == round_div(lat_distance * metas[1].y_length,
                                  metas[1].upper_corner_x - metas[1].lower_corner_x)
        row_start    == size.total_y - (y_coordinate + metadata.y_length)
    IN  [R \in 1..Len(canvas) |->
            LET y == (R - 1) - row_start
            IN  IF y >= 0 /\ y < metadata.y_length /\ y < Len(np)
                THEN copy_row(canvas[R], np[y + 1], x_coordinate, metadata.x_length,
                              size.total_x)
                ELSE canvas[R]]

\* the mesh loop from mesh i on
RECURSIVE place_meshes(_, _, _, _, _, _)
place_meshes(canvas, metas, arrays, i, b, size) ==
    IF ~(i <= Len(metas) /\ i <= Len(arrays)) THEN canvas
    ELSE place_meshes(place_mesh(canvas, metas, arrays, i, b, size),
                      metas, arrays, i + 1, b, size)

\* Converter::combine_meta_data_and_contents
combine_meta_data_and_contents(metas, arrays, b) ==
    LET size == calc_image_size(metas, b)
    IN  [combined_array |-> place_meshes([R \in 1..size.total_y |->
                                              [C \in 1..size.total_x |-> NODATA]],
                                         metas, arrays, 1, b, size),
         total_x |-> size.total_x, total_y |-> size.total_y]

InitDem ==
    /\ all_content_list \in SeqsUpTo(MosaicDocs, MaxMeshes)
    /\ mesh_code_list = <<>>
    /\ meta_data_list = <<>>
    /\ np_array_list = <<>>
    /\ tasks_pending = {}
    /\ task_order = <<>>
    /\ bounds_latlng = DefaultBounds
    /\ combined_array = <<>>
    /\ image_size = [total_x |-> 0, total_y |-> 0]
    /\ make_result = "none"
    /\ dpc = "start"
    /\ ParseIdle
    /\ GridIdle
    /\ MergeIdle
    /\ PipelineIdle
    /\ FgdIdle
    /\ RsIdle
    /\ MainIdle
    /\ BlendIdle
    /\ ExtenderIdle
    /\ ConvIdle

\* dem.cpp 43-45: no document in the archive
Dem_NoXml ==
    /\ dpc = "start"
    /\ all_content_list = <<>>
    /\ dpc' = "threw"
    /\ UNCHANGED <<all_content_list, mesh_code_list, meta_data_list, np_array_list,
                   tasks_pending, task_order, bounds_latlng, combined_array, image_size,
                   make_result>>
    /\ UNCHANGED notDem

\* Dem::check_mesh_codes
Dem_CheckMeshCodes ==
    /\ dpc = "start"
    /\ all_content_list # <<>>
    /\ mesh_code_list' = mesh_codes(all_content_list)
    /\ dpc' = "populate"
    /\ UNCHANGED <<all_content_list, meta_data_list, np_array_list, tasks_pending, task_order,
                   bounds_latlng, combined_array, image_size, make_result>>
    /\ UNCHANGED notDem

\* populate_metadata_list, lines 172-178: the resize and the index list
Dem_PopulateBegin ==
    /\ dpc = "populate"
    /\ LET size == Min(Len(all_content_list), Len(mesh_code_list))
       IN  /\ meta_data_list' = [i \in 1..size |-> DefaultMetadata]
           /\ tasks_pending' = 1..size
    /\ dpc' = "meta"
    /\ UNCHANGED <<all_content_list, mesh_code_list, np_array_list, task_order, bounds_latlng,
                   combined_array, image_size, make_result>>
    /\ UNCHANGED notDem

\* populate_metadata_list, lines 180-182: one task of the parallel loop
Dem_MetaTask ==
    /\ dpc = "meta"
    /\ \E i \in tasks_pending :
           /\ meta_data_list' = store_metadata(meta_data_list, i,
                                    format_metadata(all_content_list[i], mesh_code_list[i]))
           /\ tasks_pending' = tasks_pending \ {i}
           /\ task_order' = Append(task_order, <<"meta", i>>)
    /\ UNCHANGED <<all_content_list, mesh_code_list, np_array_list, bounds_latlng,
                   combined_array, image_size, make_result, dpc>>
    /\ UNCHANGED notDem

\* Dem::store_bounds_latlng, once the parallel loop has joined
Dem_StoreBounds ==
    /\ dpc = "meta"
    /\ tasks_pending = {}
    /\ bounds_latlng' = store_bounds_latlng(meta_data_list, bounds_latlng)
    /\ dpc' = "store"
    /\ UNCHANGED <<all_content_list, mesh_code_list, meta_data_list, np_array_list,
                   tasks_pending, task_order, combined_array, image_size, make_result>>
    /\ UNCHANGED notDem

\* store_np_array_list, lines 244-249: the resize and the index list
Dem_StoreBegin ==
    /\ dpc = "store"
    /\ np_array_list' = [i \in 1..Len(all_content_list) |-> <<>>]
    /\ tasks_pending' = 1..Len(all_content_list)
    /\ dpc' = "grid"
    /\ UNCHANGED <<all_content_list, mesh_code_list, meta_data_list, task_order, bounds_latlng,
                   combined_array, image_size, make_result>>
    /\ UNCHANGED notDem

\* store_np_array_list, lines 251-252: one task of the parallel loop
Dem_GridTask ==
    /\ dpc = "grid"
    /\ \E i \in tasks_pending :
           /\ np_array_list' = store_np_array(np_array_list, i,
                                              get_np_array(all_content_list[i]))
           /\ tasks_pending' = tasks_pending \ {i}
           /\ task_order' = Append(task_order, <<"grid", i>>)
    /\ UNCHANGED <<all_content_list, mesh_code_list, meta_data_list, bounds_latlng,
                   combined_array, image_size, make_result, dpc>>
    /\ UNCHANGED notDem

\* make_data_for_geotiff, lines 989-992: nothing to combine
Make_NoData ==
    /\ dpc = "grid"
    /\ tasks_pending = {}
    /\ meta_data_list = <<>> \/ np_array_list = <<>>
    /\ make_result' = "no_such_file_or_directory"
    /\ dpc' = "failed"
    /\ UNCHANGED <<all_content_list, mesh_code_list, meta_data_list, np_array_list,
                   tasks_pending, task_order, bounds_latlng, combined_array, image_size>>
    /\ UNCHANGED notDem

\* make_data_for_geotiff, lines 994-1015: the canvas and its geo transform
Make_Combine ==
    /\ dpc = "grid"
    /\ tasks_pending = {}
    /\ meta_data_list # <<>> /\ np_array_list # <<>>
    /\ LET c == combine_meta_data_and_contents(meta_data_list, np_array_list, bounds_latlng)
       IN  /\ combined_array' = c.combined_array
           /\ image_size' = [total_x |-> c.total_x, total_y |-> c.total_y]
           /\ make_result' =
                  [geo_transform |->
                       <<bounds_latlng.min_lng,
                         [num |-> bounds_latlng.max_lng - bounds_latlng.min_lng, den |-> c.total_x],
                         0, bounds_latlng.max_lat, 0,
                         [num |-> -(bounds_latlng.max_lat - bounds_latlng.min_lat),
                          den |-> c.total_y]>>,
                   x_length |-> c.total_x, y_length |-> c.total_y]
    /\ dpc' = "done"
    /\ UNCHANGED <<all_content_list, mesh_code_list, meta_data_list, np_array_list,
                   tasks_pending, task_order, bounds_latlng>>
    /\ UNCHANGED notDem

NextDem ==
    \/ Dem_NoXml \/ Dem_CheckMeshCodes \/ Dem_PopulateBegin \/ Dem_MetaTask
    \/ Dem_StoreBounds \/ Dem_StoreBegin \/ Dem_GridTask \/ Make_NoData \/ Make_Combine

SpecDem == InitDem /\ [][NextDem]_vars

(***************************************************************************)
(* Properties of the mosaic assembly                                        *)
(***************************************************************************)
\* make_data_for_geotiff has returned a canvas
Combined == dpc = "done"

\* the meshes the assembly places: those with both a metadata and a grid
PlacedMeshes == 1..Min(Len(meta_data_list), Len(np_array_list))

\* round(distance / pixel size) of mesh i along longitude and latitude, the
\* pixel size being that of the first mesh
XOffset(i) ==
    Round((meta_data_list[i].lower_corner_y - bounds_latlng.min_lng) * meta_data_list[1].x_length,
          meta_data_list[1].upper_corner_y - meta_data_list[1].lower_corner_y)
YOffset(i) ==
    Round((meta_data_list[i].lower_corner_x - bounds_latlng.min_lat) * meta_data_list[1].y_length,
          meta_data_list[1].upper_corner_x - meta_data_list[1].lower_corner_x)

RowStart(i) == image_size.total_y - (YOffset(i) + meta_data_list[i].y_length)
ColStart(i) == XOffset(i)

CanvasRows == 0..(image_size.total_y - 1)
CanvasCols == 0..(image_size.total_x - 1)

\* mesh i has a value for canvas cell (R, C), 0-based
Covers(i, R, C) ==
    /\ R - RowStart(i) >= 0 /\ R - RowStart(i) < Len(np_array_list[i])
    /\ R - RowStart(i) < meta_data_list[i].y_length
    /\ C - ColStart(i) >= 0 /\ C - ColStart(i) < meta_data_list[i].x_length
    /\ C - ColStart(i) < Len(np_array_list[i][R - RowStart(i) + 1])

MeshValue(i, R, C) == np_array_list[i][R - RowStart(i) + 1][C - ColStart(i) + 1]

LastOf(S) == CHOOSE i \in S : \A j \in S : j <= i

\* C6: every canvas cell covered by more than one mesh holds the value of the
\* last mesh in batch order that covers it, the sentinel included.
C6_LastMeshWins ==
    Combined =>
        \A R \in CanvasRows, C \in CanvasCols :
            LET covering == {i \in PlacedMeshes : Covers(i, R, C)}
            IN  Cardinality(covering) > 1 =>
                    combined_array[R + 1][C + 1] = MeshValue(LastOf(covering), R, C)

\* C6 witness: a cell where the first mesh has real data and the second, the
\* last to cover it, has the sentinel, and the canvas holds the sentinel
C6_Witness ==
    /\ Combined /\ Len(meta_data_list) = 2 /\ Len(np_array_list) = 2
    /\ \E R \in CanvasRows, C \in CanvasCols :
           /\ Covers(1, R, C) /\ Covers(2, R, C)
           /\ MeshValue(1, R, C) # NODATA
           /\ MeshValue(2, R, C) = NODATA
           /\ combined_array[R + 1][C + 1] = NODATA

EquallySized ==
    \A i \in PlacedMeshes :
        /\ meta_data_list[i].x_length = meta_data_list[1].x_length
        /\ meta_data_list[i].y_length = meta_data_list[1].y_length
        /\ Len(np_array_list[i]) = meta_data_list[i].y_length
        /\ \A r \in 1..Len(np_array_list[i]) :
               Len(np_array_list[i][r]) = meta_data_list[i].x_length

InsideBounds ==
    \A i \in PlacedMeshes :
        /\ RowStart(i) >= 0 /\ RowStart(i) + meta_data_list[i].y_length <= image_size.total_y
        /\ ColStart(i) >= 0 /\ ColStart(i) + meta_data_list[i].x_length <= image_size.total_x

PairwiseDisjoint ==
    \A i \in PlacedMeshes, j \in PlacedMeshes :
        i # j => \/ RowStart(i) + meta_data_list[i].y_length <= RowStart(j)
                 \/ RowStart(j) + meta_data_list[j].y_length <= RowStart(i)
                 \/ ColStart(i) + meta_data_list[i].x_length <= ColStart(j)
                 \/ ColStart(j) + meta_data_list[j].x_length <= ColStart(i)

\* C7: for equally sized meshes with pairwise disjoint placements inside the
\* bounds, canvas cell (row_start + r, col_start + c) equals mesh cell (r, c), and
\* every cell no mesh covers is -9999.0.
C7_DisjointMeshesCopied ==
    (Combined /\ EquallySized /\ InsideBounds /\ PairwiseDisjoint) =>
        /\ \A i \in PlacedMeshes :
               \A r \in 0..(meta_data_list[i].y_length - 1),
                  c \in 0..(meta_data_list[i].x_length - 1) :
                   combined_array[RowStart(i) + r + 1][ColStart(i) + c + 1]
                       = np_array_list[i][r + 1][c + 1]
        /\ \A R \in CanvasRows, C \in CanvasCols :
               (\A i \in PlacedMeshes : ~Covers(i, R, C))
                   => combined_array[R + 1][C + 1] = NODATA

\* C7 witness: two 2x2 meshes on the diagonal of a 4x4 canvas, the other two
\* quarters left at -9999.0
C7_Witness ==
    /\ Combined /\ EquallySized /\ InsideBounds /\ PairwiseDisjoint
    /\ Len(meta_data_list) = 2 /\ Len(np_array_list) = 2
    /\ combined_array = <<<<NODATA, NODATA, 310, 320>>,
                          <<NODATA, NODATA, 330, 340>>,
                          <<110, 120, NODATA, NODATA>>,
                          <<130, 140, NODATA, NODATA>>>>

\* the canvas of the batch when every per-mesh task runs in batch order
SequentialCanvas(contents) ==
    LET codes  == mesh_codes(contents)
        metas  == [i \in 1..Min(Len(contents), Len(codes)) |->
                      format_metadata(contents[i], codes[i])]
        arrays == [i \in 1..Len(contents) |-> get_np_array(contents[i])]
    IN  combine_meta_data_and_contents(metas, arrays,
                                       store_bounds_latlng(metas, DefaultBounds)).combined_array

\* C8: whatever the order in which the metadata tasks and the grid tasks ran,
\* the canvas is the one the batch gives in batch order, so two runs on the
\* same batch give identical canvases.
C8_CanvasIndependentOfInterleaving ==
    Combined => combined_array = SequentialCanvas(all_content_list)

\* C8 witness: two different overlapping meshes whose tasks both completed in
\* reverse order, and the canvas of the batch order
C8_Witness ==
    /\ Combined /\ Len(all_content_list) = 2
    /\ task_order = <<<<"meta", 2>>, <<"meta", 1>>, <<"grid", 2>>, <<"grid", 1>>>>
    /\ \E R \in CanvasRows, C \in CanvasCols :
           /\ Covers(1, R, C) /\ Covers(2, R, C)
           /\ MeshValue(1, R, C) # MeshValue(2, R, C)
           /\ combined_array[R + 1][C + 1] = MeshValue(2, R, C)

\* Dem::get_xml_content has returned: both parallel loops have joined
ContentStored == (dpc = "grid" /\ tasks_pending = {}) \/ dpc \in {"done", "failed"}

\* C28: after get_xml_content the metadata list, the grid list and the document
\* list have the same length, and metadata i (its mesh code included) and grid
\* i both come from document i, also when a document has no mesh code.
C28_ListsIndexAligned ==
    ContentStored =>
        /\ Len(meta_data_list) = Len(all_content_list)
        /\ Len(np_array_list) = Len(all_content_list)
        /\ \A i \in 1..Len(all_content_list) :
               /\ meta_data_list[i] =
                      format_metadata(all_content_list[i],
                                      XmlParser_Impl(all_content_list[i]).mesh_code)
               /\ np_array_list[i] = get_np_array(all_content_list[i])

(***************************************************************************)
(* TBBPipeline::process_files (the tbb::parallel_pipeline build).  Indices   *)
(* are 1-based: file_index = k stands for the source's file_index k - 1.    *)
(* ResultType is std::string and process_func copies the content, as in     *)
(* Dem::get_xml_content.                                                    *)
(***************************************************************************)
\* the files behind the paths: one that cannot be mapped, an empty one, three texts
PipelineFiles ==
    { [readable |-> FALSE, content |-> ""],
      [readable |-> FALSE, content |-> "D"],
      [readable |-> TRUE, content |-> ""],
      [readable |-> TRUE, content |-> "A"],
      [readable |-> TRUE, content |-> "B"],
      [readable |-> TRUE, content |-> "C"] }

\* ResultType{}
DefaultResult == ""

\* dem.cpp 48-49: the process function Dem hands to the pipeline
process_func(content) == content

\* read stage, lines 67-73, without the is_open() test
read_item_unchecked(paths, idx) ==
    [idx |-> idx, content |-> paths[idx].content,
     stage |-> "read", result |-> DefaultResult]

\* read stage, lines 67-73: the pair made for file idx; a file that cannot be
\* opened or mapped (MemoryMappedFile::is_open() false) gives the empty string
read_item(paths, idx) ==
    [idx |-> idx,
     content |-> IF paths[idx].readable THEN paths[idx].content ELSE "",
     stage |-> "read", result |-> DefaultResult]

\* parse stage, lines 85-91
parse_result(content) == IF content = "" THEN DefaultResult ELSE process_func(content)

\* collect stage, lines 105-109, with the vector cleared on every resize
store_result_cleared(res, idx, result) ==
    IF Len(res) < idx
    THEN [k \in 1..idx |-> IF k = idx THEN result ELSE DefaultResult]
    ELSE [res EXCEPT ![idx] = result]

\* collect stage, lines 105-109: resize when too short, then assign
store_result(res, idx, result) ==
    LET resized == IF Len(res) < idx
                   THEN res \o [k \in 1..(idx - Len(res)) |-> DefaultResult]
                   ELSE res
    IN  [resized EXCEPT ![idx] = result]

\* lines 34-36: max_tokens_, hardware_concurrency() * 3 when max_tokens is 0
TBBPipeline_max_tokens(max_tokens, hardware_concurrency) ==
    IF max_tokens = 0 THEN hardware_concurrency * 3 ELSE max_tokens

\* line 113: parallel_pipeline starts a new item only while fewer than
\* max_tokens_ items are in flight
token_available_inclusive(in_flight, limit) == Cardinality(in_flight) <= limit

token_available(in_flight, limit) == Cardinality(in_flight) < limit

InitPipeline ==
    /\ file_paths \in SeqsUpTo(PipelineFiles, MaxPaths)
    /\ \E max_tokens \in 0..MaxTokens, hardware_concurrency \in 1..MaxHardware :
           max_tokens_ = TBBPipeline_max_tokens(max_tokens, hardware_concurrency)
    /\ file_index = 1
    /\ stopped = FALSE
    /\ items = {}
    /\ next_token = 1
    /\ results = <<>>
    /\ parse_order = <<>>
    /\ returned = "none"
    /\ tpc = "call"
    /\ ParseIdle
    /\ GridIdle
    /\ MergeIdle
    /\ DemIdle
    /\ FgdIdle
    /\ RsIdle
    /\ MainIdle
    /\ BlendIdle
    /\ ExtenderIdle
    /\ ConvIdle

\* lines 45-47: no path
Pipe_Empty ==
    /\ tpc = "call"
    /\ file_paths = <<>>
    /\ returned' = <<>>
    /\ tpc' = "returned"
    /\ UNCHANGED <<file_paths, max_tokens_, file_index, stopped, items, next_token, results,
                   parse_order>>
    /\ UNCHANGED notPipeline

\* lines 49-54, 113: the locals, and parallel_pipeline is entered
Pipe_Start ==
    /\ tpc = "call"
    /\ file_paths # <<>>
    /\ tpc' = "running"
    /\ UNCHANGED <<file_paths, max_tokens_, file_index, stopped, items, next_token, results,
                   parse_order, returned>>
    /\ UNCHANGED notPipeline

\* read stage (serial, in order) with a token free: the next file is read
Pipe_Read ==
    /\ tpc = "running" /\ ~stopped
    /\ token_available(items, max_tokens_)
    /\ file_index <= Len(file_paths)
    /\ items' = items \cup {read_item(file_paths, file_index)}
    /\ file_index' = file_index + 1
    /\ UNCHANGED <<file_paths, max_tokens_, stopped, next_token, results, parse_order,
                   returned, tpc>>
    /\ UNCHANGED notPipeline

\* read stage, lines 62-65: past the last file, fc.stop()
Pipe_ReadStop ==
    /\ tpc = "running" /\ ~stopped
    /\ token_available(items, max_tokens_)
    /\ file_index > Len(file_paths)
    /\ file_index' = file_index + 1
    /\ stopped' = TRUE
    /\ UNCHANGED <<file_paths, max_tokens_, items, next_token, results, parse_order,
                   returned, tpc>>
    /\ UNCHANGED notPipeline

\* parse stage (parallel): any item that was read
Pipe_Parse ==
    /\ tpc = "running"
    /\ \E it \in items :
           /\ it.stage = "read"
           /\ items' = (items \ {it})
                           \cup {[it EXCEPT !.stage = "parsed",
                                            !.result = parse_result(it.content)]}
           /\ parse_order' = Append(parse_order, it.idx)
    /\ UNCHANGED <<file_paths, max_tokens_, file_index, stopped, next_token, results,
                   returned, tpc>>
    /\ UNCHANGED notPipeline

\* collect stage (serial, in order): the parsed item whose turn it is
Pipe_Collect ==
    /\ tpc = "running"
    /\ \E it \in items :
           /\ it.stage = "parsed"
           /\ it.idx = next_token
           /\ results' = store_result(results, it.idx, it.result)
           /\ items' = items \ {it}
    /\ next_token' = next_token + 1
    /\ UNCHANGED <<file_paths, max_tokens_, file_index, stopped, parse_order, returned, tpc>>
    /\ UNCHANGED notPipeline

\* line 115: parallel_pipeline is over, results is returned
Pipe_Return ==
    /\ tpc = "running"
    /\ stopped /\ items = {}
    /\ returned' = results
    /\ tpc' = "returned"
    /\ UNCHANGED <<file_paths, max_tokens_, file_index, stopped, items, next_token, results,
                   parse_order>>
    /\ UNCHANGED notPipeline

NextPipeline ==
    \/ Pipe_Empty \/ Pipe_Start \/ Pipe_Read \/ Pipe_ReadStop
    \/ Pipe_Parse \/ Pipe_Collect \/ Pipe_Return

SpecPipeline == InitPipeline /\ [][NextPipeline]_vars

(***************************************************************************)
(* Properties of the pipeline                                               *)
(***************************************************************************)
\* what processing a source gives: its text, or nothing when it cannot be read
ResultOfSource(file) == IF file.readable THEN file.content ELSE ""

\* C10: for a non-empty list of N sources, process_files returns exactly N
\* results and element i is the result of source i, in every interleaving of
\* the parse stage.
C10_ResultsInSourceOrder ==
    (tpc = "returned" /\ file_paths # <<>>) =>
        /\ Len(returned) = Len(file_paths)
        /\ \A i \in 1..Len(file_paths) : returned[i] = ResultOfSource(file_paths[i])

\* C10 witness: three different texts, the second parsed before the first, and
\* the results returned in source order
C10_Witness ==
    /\ tpc = "returned" /\ Len(file_paths) = 3
    /\ parse_order[1] = 2 /\ parse_order[2] = 1
    /\ returned = <<"A", "B", "C">>

\* the documents read so far and the documents placed in results so far
DocumentsRead == Min(file_index - 1, Len(file_paths))
DocumentsPlaced == next_token - 1

\* C11: at every moment of a run the documents read but not yet placed in the
\* result vector number at most max_tokens_.
C11_ReadAheadBounded ==
    tpc = "running" =>
        /\ DocumentsRead - DocumentsPlaced <= max_tokens_
        /\ DocumentsPlaced = Len(results)

\* C11 witness: two documents read, none placed, a third still unread and the
\* token limit of two reached
C11_Witness ==
    /\ tpc = "running" /\ max_tokens_ = 2 /\ Len(file_paths) = 3
    /\ file_index = 3 /\ DocumentsRead = 2 /\ DocumentsPlaced = 0
    /\ ~ENABLED Pipe_Read

\* C12: when reading document i fails, process_files still returns (a run
\* in progress always has a step to take), slot i of the result holds the
\* default result and every other slot j holds the result of processing
\* document j.
C12_ReadFailureLeavesDefaultSlot ==
    /\ tpc = "running" => ENABLED NextPipeline
    /\ (tpc = "returned" /\ \E i \in 1..Len(file_paths) : ~file_paths[i].readable) =>
           /\ Len(returned) = Len(file_paths)
           /\ \A i \in 1..Len(file_paths) :
                  returned[i] = IF file_paths[i].readable
                                THEN process_func(file_paths[i].content)
                                ELSE DefaultResult

\* C12 witness: the second of three documents holds text but cannot be read;
\* the run returned with its slot empty and the other two slots filled
C12_Witness ==
    /\ tpc = "returned" /\ Len(file_paths) = 3
    /\ ~file_paths[2].readable /\ file_paths[2].content = "D"
    /\ returned = <<"A", DefaultResult, "C">>

(***************************************************************************)
(* Properties of parse_tuple_list                                           *)
(***************************************************************************)
\* where the closing tag of the tuple list starts in xml
ClosingTag == CHOOSE p \in 1..Len(xml) : xml[p] = "<" /\ xml[p + 1] = "/gml:tupleList>"

\* the sample a record stands for: the sentinel when its value does not
\* parse, 0.0 for a normalized sea record, the number written otherwise
SampleOf(r) ==
    IF ~r.text.ok THEN Tenths(-9999)
    ELSE IF sea_at_zero /\ r.type \in SeaTags /\ r.text.num <= Tenths(-9999) THEN 0
    ELSE r.text.num

from_chars_int(s, p, e) ==
    LET neg == p < e /\ s[p] = "-"
        i0  == IF neg THEN p + 1 ELSE p
        i1  == DigitsEnd(s, i0, e)
        ok  == i1 > i0
        mag == DigitsVal(s, i0, i1, 0)
    IN  [ok |-> ok, value |-> IF ok THEN (IF neg THEN -mag ELSE mag) ELSE 0,
         ptr |-> IF ok THEN i1 ELSE p]

\* starts_with(ptr, end, pattern)
starts_with(s, p, e, pattern) == p < e /\ s[p] = pattern

\* a pair parser that gives up on the whole text when the first number fails
parse_double_pair_to_end(s, p, e, val1, val2) ==
    LET p0          == skip_whitespace(s, p, e)
        content_end == ScanTo(s, p0, e, {"<"})
        r1          == from_chars(s, p0, content_end)
        p1          == skip_whitespace(s, r1.ptr, content_end)
        r2          == from_chars(s, p1, content_end)
    IN  IF ~r1.ok THEN [ptr |-> e, val1 |-> val1, val2 |-> val2]
        ELSE IF ~r2.ok THEN [ptr |-> content_end, val1 |-> r1.value, val2 |-> val2]
        ELSE [ptr |-> content_end, val1 |-> r1.value, val2 |-> r2.value]

\* parse_double_pair(ptr, end, val1, val2): the pointer returned and the two
\* values afterwards; from_chars leaves a value as it was when it fails
parse_double_pair(s, p, e, val1, val2) ==
    LET p0          == skip_whitespace(s, p, e)
        content_end == ScanTo(s, p0, e, {"<"})
        r1          == from_chars(s, p0, content_end)
        p1          == skip_whitespace(s, r1.ptr, content_end)
        r2          == from_chars(s, p1, content_end)
    IN  IF ~r1.ok THEN [ptr |-> content_end, val1 |-> val1, val2 |-> val2]
        ELSE IF ~r2.ok THEN [ptr |-> content_end, val1 |-> r1.value, val2 |-> val2]
        ELSE [ptr |-> content_end, val1 |-> r1.value, val2 |-> r2.value]

\* parse_int_pair(ptr, end, val1, val2)
parse_int_pair(s, p, e, val1, val2) ==
    LET p0          == skip_whitespace(s, p, e)
        content_end == ScanTo(s, p0, e, {"<"})
        r1          == from_chars_int(s, p0, content_end)
        p1          == skip_whitespace(s, r1.ptr, content_end)
        r2          == from_chars_int(s, p1, content_end)
    IN  IF ~r1.ok THEN [ptr |-> content_end, val1 |-> val1, val2 |-> val2]
        ELSE IF ~r2.ok THEN [ptr |-> content_end, val1 |-> r1.value, val2 |-> val2]
        ELSE [ptr |-> content_end, val1 |-> r1.value, val2 |-> r2.value]

\* the end of [p, q) without its trailing whitespace
RECURSIVE trim_end(_, _, _)
trim_end(s, p, q) == IF q > p /\ IsSpace(s[q - 1]) THEN trim_end(s, p, q - 1) ELSE q

\* parse_simple_text(ptr, end, result): the pointer returned (the trimmed end)
\* and the text assigned
parse_simple_text(s, p, e) ==
    LET content_start == skip_whitespace(s, p, e)
        content_end   == trim_end(s, content_start, ScanTo(s, content_start, e, {"<"}))
    IN  [ptr |-> content_end, result |-> Slice(s, content_start, content_end)]

\* the pointer parse_tuple_list returns: where its loop stopped
RECURSIVE tuple_loop_end(_, _, _, _)
tuple_loop_end(s, p, e, flag) ==
    IF tuple_loop_stops(s, p, e) THEN p
    ELSE tuple_loop_end(s, tuple_record_at(s, p, e, flag).next, e, flag)

parse_tuple_list_end(s, p, flag) ==
    tuple_loop_end(s, skip_whitespace(s, p, Len(s) + 1), Len(s) + 1, flag)

\* ParsedData{}
DefaultParsedData ==
    [lower_corner_x |-> 0, lower_corner_y |-> 0, upper_corner_x |-> 0, upper_corner_y |-> 0,
     grid_low_x |-> 0, grid_low_y |-> 0, grid_high_x |-> 0, grid_high_y |-> 0,
     start_x |-> 0, start_y |-> 0, mesh_code |-> <<>>, dem_type |-> <<>>,
     elevation_list |-> <<>>,
     has_lower_corner |-> FALSE, has_upper_corner |-> FALSE, has_grid_envelope |-> FALSE,
     has_start_point |-> FALSE, has_mesh_code |-> FALSE, has_dem_type |-> FALSE,
     has_tuple_list |-> FALSE]

\* lines 198-201: the test for leaving the loop after the tuple list
early_exit(d) ==
    d.has_lower_corner /\ d.has_upper_corner /\ d.has_grid_envelope /\ d.has_start_point

\* the tags parse_all dispatches on
RecognizedTags ==
    {"gml:lowerCorner>", "gml:upperCorner>", "gml:low>", "gml:high>", "gml:startPoint>",
     "mesh>", "type>", "gml:tupleList>"}

\* lines 167-205: one iteration of parse_all's loop from p with the data d:
\* the pointer and the data afterwards, and whether the loop is left
parse_all_step(s, p, e, d, flag) ==
    LET lt == find_char(s, p, e, "<")
        q  == lt + 1
    IN  IF p >= e \/ lt = 0 THEN [ptr |-> p, data |-> d, break |-> TRUE]
        ELSE IF starts_with(s, q, e, "gml:lowerCorner>")
        THEN LET r == parse_double_pair(s, q + 1, e, d.lower_corner_x, d.lower_corner_y)
             IN  [ptr |-> r.ptr, break |-> FALSE,
                  data |-> [d EXCEPT !.lower_corner_x = r.val1, !.lower_corner_y = r.val2,
                                     !.has_lower_corner = TRUE]]
        ELSE IF starts_with(s, q, e, "gml:upperCorner>")
        THEN LET r == parse_double_pair(s, q + 1, e, d.upper_corner_x, d.upper_corner_y)
             IN  [ptr |-> r.ptr, break |-> FALSE,
                  data |-> [d EXCEPT !.upper_corner_x = r.val1, !.upper_corner_y = r.val2,
                                     !.has_upper_corner = TRUE]]
        ELSE IF starts_with(s, q, e, "gml:low>")
        THEN LET r == parse_int_pair(s, q + 1, e, d.grid_low_x, d.grid_low_y)
             IN  [ptr |-> r.ptr, break |-> FALSE,
                  data |-> [d EXCEPT !.grid_low_x = r.val1, !.grid_low_y = r.val2]]
        ELSE IF starts_with(s, q, e, "gml:high>")
        THEN LET r == parse_int_pair(s, q + 1, e, d.grid_high_x, d.grid_high_y)
             IN  [ptr |-> r.ptr, break |-> FALSE,
                  data |-> [d EXCEPT !.grid_high_x = r.val1, !.grid_high_y = r.val2,
                                     !.has_grid_envelope = TRUE]]
        ELSE IF starts_with(s, q, e, "gml:startPoint>")
        THEN LET r == parse_double_pair(s, q + 1, e, d.start_x, d.start_y)
             IN  [ptr |-> r.ptr, break |-> FALSE,
                  data |-> [d EXCEPT !.start_x = r.val1, !.start_y = r.val2,
                                     !.has_start_point = TRUE]]
        ELSE IF starts_with(s, q, e, "mesh>")
        THEN LET r == parse_simple_text(s, q + 1, e)
             IN  [ptr |-> r.ptr, break |-> FALSE,
                  data |-> [d EXCEPT !.mesh_code = r.result, !.has_mesh_code = TRUE]]
        ELSE IF starts_with(s, q, e, "type>")
        THEN LET r == parse_simple_text(s, q + 1, e)
             IN  [ptr |-> r.ptr, break |-> FALSE,
                  data |-> [d EXCEPT !.dem_type = r.result, !.has_dem_type = TRUE]]
        ELSE IF starts_with(s, q, e, "gml:tupleList>")
        THEN LET d2 == [d EXCEPT !.elevation_list =
                                     d.elevation_list \o parse_tuple_list(s, q + 1, flag),
                                 !.has_tuple_list = TRUE]
             IN  [ptr |-> parse_tuple_list_end(s, q + 1, flag), data |-> d2,
                  break |-> early_exit(d2)]
        ELSE [ptr |-> q, data |-> d, break |-> FALSE]

\* parse_all's loop from p on, whole: the data returned
RECURSIVE parse_all_loop(_, _, _, _, _)
parse_all_loop(s, p, e, d, flag) ==
    LET r == parse_all_step(s, p, e, d, flag)
    IN  IF r.break THEN r.data ELSE parse_all_loop(s, r.ptr, e, r.data, flag)

\* FastFGDParser::parse_all(xml, sea_at_zero) on a document text
FastFGDParser_parse_all(s, flag) == parse_all_loop(s, 1, Len(s) + 1, DefaultParsedData, flag)

(***************************************************************************)
(* Documents.  The text of a number pair carries, written by hand, which   *)
(* of its two sub-values is a number and the numbers written.              *)
(***************************************************************************)
PairBoth ==
    [chars |-> <<"3", " ", "4">>, first_ok |-> TRUE, first |-> 3,
     second_ok |-> TRUE, second |-> 4]
PairNoFirst ==
    [chars |-> <<"x", " ", "4">>, first_ok |-> FALSE, first |-> 0,
     second_ok |-> TRUE, second |-> 4]
PairNoSecond ==
    [chars |-> <<"3", " ", "x">>, first_ok |-> TRUE, first |-> 3,
     second_ok |-> FALSE, second |-> 0]
PairEmpty ==
    [chars |-> <<>>, first_ok |-> FALSE, first |-> 0, second_ok |-> FALSE, second |-> 0]

FailingPairs == {PairNoFirst, PairNoSecond, PairEmpty}

DoublePairTags == {"gml:lowerCorner>", "gml:upperCorner>", "gml:startPoint>"}
IntPairTags == {"gml:low>", "gml:high>"}
PairTags == DoublePairTags \cup IntPairTags

\* the header tags in the order of a mesh document, and the same reversed
HeaderOrder ==
    <<"mesh>", "type>", "gml:lowerCorner>", "gml:upperCorner>", "gml:low>", "gml:high>",
      "gml:startPoint>">>

Reverse(s) == [i \in 1..Len(s) |-> s[Len(s) + 1 - i]]

HeaderTags == {HeaderOrder[i] : i \in 1..Len(HeaderOrder)}

\* the tags of S in the order of seq
Keep(seq, S) == SelectSeq(seq, LAMBDA t : t \in S)

InsertAt(seq, k, x) == SubSeq(seq, 1, k) \o <<x>> \o SubSeq(seq, k + 1, Len(seq))

\* the tag sequences of the documents: any subset of the header tags, in
\* document order or reversed, the tuple list absent or at any place
TagSequences ==
    UNION { LET kept == Keep(base, S)
            IN  {kept} \cup {InsertAt(kept, k, "gml:tupleList>") : k \in 0..Len(kept)} :
            S \in SUBSET HeaderTags, base \in {HeaderOrder, Reverse(HeaderOrder)} }

\* the documents: every pair well written, or one pair with a failing sub-value
FgdDocuments ==
    UNION { {[i \in 1..Len(tags) |-> [tag |-> tags[i], pair |-> PairBoth]]}
            \cup { [i \in 1..Len(tags) |->
                       [tag |-> tags[i], pair |-> IF i = f THEN bad ELSE PairBoth]] :
                   f \in {i \in 1..Len(tags) : tags[i] \in PairTags}, bad \in FailingPairs } :
            tags \in TagSequences }

\* the text of an element
render_element(el) ==
    IF el.tag = "gml:tupleList>"
    THEN <<"<", el.tag>> \o render_tuple_list(<<[type |-> Ground, text |-> TextLand]>>)
         \o <<"\n">>
    ELSE <<"<", el.tag>>
         \o (IF el.tag \in PairTags THEN el.pair.chars
             ELSE IF el.tag = "mesh>" THEN <<"533945">> ELSE <<"5A">>)
         \o <<"<", "/", el.tag, "\n">>

RECURSIVE render_document(_)
render_document(elems) ==
    IF elems = <<>> THEN <<>>
    ELSE render_element(Head(elems)) \o render_document(Tail(elems))

InitFgd ==
    /\ fgd_elems \in FgdDocuments
    /\ fgd_xml = render_document(fgd_elems)
    /\ fgd_ptr = 1
    /\ fgd_data = DefaultParsedData
    /\ fgd_result = "none"
    /\ fgd_pc = "scan"
    /\ ParseIdle
    /\ GridIdle
    /\ MergeIdle
    /\ DemIdle
    /\ PipelineIdle
    /\ RsIdle
    /\ MainIdle
    /\ BlendIdle
    /\ ExtenderIdle
    /\ ConvIdle

\* lines 167-205: one iteration of the loop; it ends the loop when there is
\* no further "<" and after a tuple list that passes the early-exit test
Fgd_Iterate ==
    /\ fgd_pc = "scan"
    /\ \E r \in {parse_all_step(fgd_xml, fgd_ptr, Len(fgd_xml) + 1, fgd_data, TRUE)} :
           /\ fgd_ptr' = r.ptr
           /\ fgd_data' = r.data
           /\ fgd_pc' = IF r.break THEN "return" ELSE "scan"
    /\ UNCHANGED <<fgd_elems, fgd_xml, fgd_result>>
    /\ UNCHANGED notFgd

\* line 207: return data
Fgd_Return ==
    /\ fgd_pc = "return"
    /\ fgd_result' = fgd_data
    /\ fgd_pc' = "returned"
    /\ UNCHANGED <<fgd_elems, fgd_xml, fgd_ptr, fgd_data>>
    /\ UNCHANGED notFgd

NextFgd == Fgd_Iterate \/ Fgd_Return

SpecFgd == InitFgd /\ [][NextFgd]_vars

(***************************************************************************)
(* Properties of parse_all                                                  *)
(***************************************************************************)
\* the two values and the presence flag a tag stands for in a ParsedData;
\* grid low has no flag of its own
first_of(d, tag) ==
    CASE tag = "gml:lowerCorner>" -> d.lower_corner_x
      [] tag = "gml:upperCorner>" -> d.upper_corner_x
      [] tag = "gml:low>" -> d.grid_low_x
      [] tag = "gml:high>" -> d.grid_high_x
      [] tag = "gml:startPoint>" -> d.start_x

second_of(d, tag) ==
    CASE tag = "gml:lowerCorner>" -> d.lower_corner_y
      [] tag = "gml:upperCorner>" -> d.upper_corner_y
      [] tag = "gml:low>" -> d.grid_low_y
      [] tag = "gml:high>" -> d.grid_high_y
      [] tag = "gml:startPoint>" -> d.start_y

reported(d, tag) ==
    CASE tag = "gml:lowerCorner>" -> d.has_lower_corner
      [] tag = "gml:upperCorner>" -> d.has_upper_corner
      [] tag = "gml:low>" -> TRUE
      [] tag = "gml:high>" -> d.has_grid_envelope
      [] tag = "gml:startPoint>" -> d.has_start_point
      [] tag = "mesh>" -> d.has_mesh_code
      [] tag = "type>" -> d.has_dem_type
      [] tag = "gml:tupleList>" -> d.has_tuple_list

\* the number a written integer n stands for in the field of a tag
number_written(tag, n) == IF tag \in DoublePairTags THEN Tenths(n) ELSE n

\* the same document with every number pair well written
Repaired(elems) == [i \in 1..Len(elems) |-> [elems[i] EXCEPT !.pair = PairBoth]]

C14_PresentFieldsReported ==
    fgd_pc = "returned" =>
        \A i \in 1..Len(fgd_elems) :
            fgd_elems[i].tag \in HeaderTags => reported(fgd_result, fgd_elems[i].tag)

\* the parser has passed the opening tag of an element with this tag
TagSeen(tag) ==
    \E i \in 1..Len(fgd_elems) :
        /\ fgd_elems[i].tag = tag
        /\ Len(render_document(SubSeq(fgd_elems, 1, i - 1))) + 1 < fgd_ptr

\* C26: the grid-envelope flag is set only once both the gml:low tag and the
\* gml:high tag have been seen; a document with gml:high and no gml:low is
\* reported without a grid envelope.
C26_EnvelopeNeedsLowAndHigh ==
    fgd_data.has_grid_envelope => (TagSeen("gml:low>") /\ TagSeen("gml:high>"))

(***************************************************************************)
(* GeoTiff::resampling.  A raster file is described by the identifier its  *)
(* keys record (epsg), the system its coordinates are in (crs) and the     *)
(* number of times it was rewritten (version).  PROJ is outside the        *)
(* repository: what proj_create resolves a target string to is written by  *)
(* hand in the catalogue of targets (crs, "null" when PROJ rejects the     *)
(* string), as is whether the string has the AUTHORITY:CODE shape.         *)
(***************************************************************************)
MaxCalls == 2

NoRaster == [state |-> "absent", epsg |-> 0, crs |-> "none", version |-> 0]

\* the file GeoTiff::create writes: geographic, identifier 4326
CreatedRaster == [state |-> "complete", epsg |-> 4326, crs |-> "EPSG:4326", version |-> 0]

NoTransform == [from |-> "none", to |-> "none"]

ResamplingTargets ==
    { [chars |-> <<"E", "P", "S", "G", ":", "3", "8", "5", "7">>,
       crs |-> "EPSG:3857", authority_code |-> TRUE],
      [chars |-> <<"E", "P", "S", "G", ":", "4", "3", "2", "6">>,
       crs |-> "EPSG:4326", authority_code |-> TRUE],
      [chars |-> <<"E", "S", "R", "I", ":", "1", "0", "2", "1", "0", "0">>,
       crs |-> "ESRI:102100", authority_code |-> TRUE],
      [chars |-> <<"u", "r", "n", ":", "o", "g", "c", ":", "d", "e", "f", ":", "c", "r", "s",
                   ":", "E", "P", "S", "G", ":", ":", "6", "6", "7", "7">>,
       crs |-> "EPSG:6677", authority_code |-> FALSE],
      [chars |-> <<"E", "P", "S", "G", ":", "x">>, crs |-> "null", authority_code |-> FALSE],
      [chars |-> <<"w", "e", "b">>, crs |-> "null", authority_code |-> FALSE],
      [chars |-> <<>>, crs |-> "null", authority_code |-> FALSE] }

\* proj_create(ctx, definition): the system, or "null"
proj_create(target) == target.crs

\* proj_is_equivalent_to(src_pj, dst_pj, PJ_COMP_EQUIVALENT)
proj_is_equivalent_to(a, b) == a = b

\* line 474: std::string src_crs = "EPSG:4326"
src_crs == "EPSG:4326"

\* dst_crs.find("EPSG:") == 0
has_epsg_prefix(chars) ==
    Len(chars) >= 5 /\ SubSeq(chars, 1, 5) = <<"E", "P", "S", "G", ":">>

\* std::stoi on the text from p on: the leading digits (no string of the
\* catalogue has a sign or leading whitespace there)
stoi(chars, p) == DigitsVal(chars, p, DigitsEnd(chars, p, Len(chars) + 1), 0)

\* lines 584-588: dst_data.epsg
dst_epsg(chars) == IF has_epsg_prefix(chars) THEN stoi(chars, 6) ELSE 0

InitRs ==
    /\ rs_file = CreatedRaster
    /\ rs_temp = NoRaster
    /\ rs_target = [chars |-> <<>>, crs |-> "null", authority_code |-> FALSE]
    /\ rs_src = NoRaster
    /\ rs_transform = NoTransform
    /\ rs_dst = NoRaster
    /\ rs_ec = "none"
    /\ rs_result = "none"
    /\ rs_calls = 0
    /\ rs_pc = "ready"
    /\ ParseIdle
    /\ GridIdle
    /\ MergeIdle
    /\ DemIdle
    /\ PipelineIdle
    /\ FgdIdle
    /\ MainIdle
    /\ BlendIdle
    /\ ExtenderIdle
    /\ ConvIdle

\* resampling(output_epsg, ec) is called on the object
Rs_Call ==
    /\ rs_pc \in {"ready", "returned"}
    /\ rs_result # "exception"
    /\ rs_calls < MaxCalls
    /\ rs_target' \in ResamplingTargets
    /\ rs_calls' = rs_calls + 1
    /\ rs_src' = NoRaster /\ rs_transform' = NoTransform /\ rs_dst' = NoRaster
    /\ rs_ec' = "none" /\ rs_result' = "none"
    /\ rs_pc' = "read"
    /\ UNCHANGED <<rs_file, rs_temp>>
    /\ UNCHANGED notRs

\* lines 460-464: read_geotiff on the output path
Rs_Read ==
    /\ rs_pc = "read"
    /\ IF rs_file.state = "complete"
       THEN /\ rs_src' = rs_file
            /\ rs_pc' = "context"
            /\ UNCHANGED <<rs_ec, rs_result>>
       ELSE /\ rs_ec' = "no_such_file_or_directory"
            /\ rs_result' = "false"
            /\ rs_pc' = "returned"
            /\ UNCHANGED rs_src
    /\ UNCHANGED <<rs_file, rs_temp, rs_target, rs_transform, rs_dst, rs_calls>>
    /\ UNCHANGED notRs

\* lines 467-471: proj_context_create
Rs_Context ==
    /\ rs_pc = "context"
    /\ \E ctx \in BOOLEAN :
           IF ctx
           THEN rs_pc' = "crs" /\ UNCHANGED <<rs_ec, rs_result>>
           ELSE rs_ec' = "not_enough_memory" /\ rs_result' = "false" /\ rs_pc' = "returned"
    /\ UNCHANGED <<rs_file, rs_temp, rs_target, rs_src, rs_transform, rs_dst, rs_calls>>
    /\ UNCHANGED notRs

\* lines 474-494: the two systems are created and compared
Rs_CreateCrs ==
    /\ rs_pc = "crs"
    /\ LET dst_pj == proj_create(rs_target)
       IN  IF dst_pj = "null"
           THEN rs_ec' = "invalid_argument" /\ rs_result' = "false" /\ rs_pc' = "returned"
           ELSE IF proj_is_equivalent_to(src_crs, dst_pj)
           THEN rs_result' = "true" /\ rs_pc' = "returned" /\ UNCHANGED rs_ec
           ELSE rs_pc' = "transform" /\ UNCHANGED <<rs_ec, rs_result>>
    /\ UNCHANGED <<rs_file, rs_temp, rs_target, rs_src, rs_transform, rs_dst, rs_calls>>
    /\ UNCHANGED notRs

\* lines 496-639: the forward and the inverse transform are made from src_crs
\* and dst_crs, and dst_data is filled through them
Rs_Transform ==
    /\ rs_pc = "transform"
    /\ \E made \in BOOLEAN :
           IF made
           THEN /\ rs_transform' = [from |-> src_crs, to |-> proj_create(rs_target)]
                /\ rs_dst' = [state |-> "complete", epsg |-> dst_epsg(rs_target.chars),
                              crs |-> proj_create(rs_target),
                              version |-> rs_src.version + 1]
                /\ rs_pc' = "write"
                /\ UNCHANGED <<rs_ec, rs_result>>
           ELSE /\ rs_ec' = "invalid_argument" /\ rs_result' = "false"
                /\ rs_pc' = "returned"
                /\ UNCHANGED <<rs_transform, rs_dst>>
    /\ UNCHANGED <<rs_file, rs_temp, rs_target, rs_src, rs_calls>>
    /\ UNCHANGED notRs

\* lines 642-649: write_geotiff(temp_path, dst_data); a failed write leaves
\* no file or part of one at temp_path
Rs_WriteTemp ==
    /\ rs_pc = "write"
    /\ \/ /\ rs_temp' = rs_dst
          /\ rs_pc' = "remove"
          /\ UNCHANGED <<rs_ec, rs_result>>
       \/ /\ rs_temp' \in {NoRaster, [rs_dst EXCEPT !.state = "partial"]}
          /\ rs_ec' = "io_error" /\ rs_result' = "false"
          /\ rs_pc' = "returned"
    /\ UNCHANGED <<rs_file, rs_target, rs_src, rs_transform, rs_dst, rs_calls>>
    /\ UNCHANGED notRs

\* line 652: std::filesystem::remove(output_path), which throws on an error
Rs_Remove ==
    /\ rs_pc = "remove"
    /\ \/ /\ rs_file' = NoRaster
          /\ rs_pc' = "rename"
          /\ UNCHANGED rs_result
       \/ /\ rs_result' = "exception"
          /\ rs_pc' = "returned"
          /\ UNCHANGED rs_file
    /\ UNCHANGED <<rs_temp, rs_target, rs_src, rs_transform, rs_dst, rs_ec, rs_calls>>
    /\ UNCHANGED notRs

\* lines 653-655: std::filesystem::rename(temp_path, output_path), which
\* throws on an error, and return true
Rs_Rename ==
    /\ rs_pc = "rename"
    /\ \/ /\ rs_file' = rs_temp
          /\ rs_temp' = NoRaster
          /\ rs_result' = "true"
       \/ /\ rs_result' = "exception"
          /\ UNCHANGED <<rs_file, rs_temp>>
    /\ rs_pc' = "returned"
    /\ UNCHANGED <<rs_target, rs_src, rs_transform, rs_dst, rs_ec, rs_calls>>
    /\ UNCHANGED notRs

NextRs ==
    \/ Rs_Call \/ Rs_Read \/ Rs_Context \/ Rs_CreateCrs \/ Rs_Transform
    \/ Rs_WriteTemp \/ Rs_Remove \/ Rs_Rename

SpecRs == InitRs /\ [][NextRs]_vars

(***************************************************************************)
(* Properties of resampling                                                 *)
(***************************************************************************)
\* C16: at every point of resampling, and after any failure, the output path
\* holds a complete raster.
C16_OutputAlwaysComplete == rs_file.state = "complete"

\* C17: a target that has not the AUTHORITY:CODE shape is rejected before
\* anything is written, and no raster is written with the identifier 0.
C17_RejectsTargetWithoutCode ==
    /\ rs_pc \in {"transform", "write", "remove", "rename"} => rs_target.authority_code
    /\ rs_temp.state = "complete" => rs_temp.epsg # 0
    /\ rs_file.state = "complete" => rs_file.epsg # 0

\* the system the identifier recorded in a raster file names
recorded_crs(raster) ==
    CASE raster.epsg = 4326 -> "EPSG:4326"
      [] raster.epsg = 3857 -> "EPSG:3857"
      [] raster.epsg = 6677 -> "EPSG:6677"
      [] OTHER -> "unknown"

\* C18: the transforms of a call go from the system recorded in the raster
\* file it read to the target, and a call from B back to A after a call from
\* A to B leaves the file in A.
C18_TransformFromRecordedSystem ==
    /\ rs_transform # NoTransform => rs_transform.from = recorded_crs(rs_src)
    /\ (rs_pc = "returned" /\ rs_result = "true") =>
           rs_file.crs = proj_create(rs_target)

(***************************************************************************)
(* main: the command line, the conversion of the archives in a             *)
(* tbb::parallel_for_each, and the merge-only branch.  Converting an       *)
(* archive is described by how it ends: "ok", "run_fails" (Converter::run  *)
(* returns false), "extract_fails" (Dem::unzip_dem throws) or "no_xml"     *)
(* (Dem::get_xml_content throws).                                          *)
(***************************************************************************)
MaxArchives == 2

ArchiveKinds == {"ok", "run_fails", "extract_fails", "no_xml"}

\* the outcomes in which an exception leaves Converter::run (dem.cpp 45, 74)
Throws(kind) == kind \in {"extract_fails", "no_xml"}

\* the command lines: -h, -i, -m (its DEM type, "" when not given), -M, -x,
\* and whether the input folder exists
CommandLines ==
    [help : BOOLEAN, input : BOOLEAN, merge : {"", "5A"}, merge_only : BOOLEAN,
     extract_only : BOOLEAN, input_exists : BOOLEAN]

InitMain ==
    /\ mn_args \in CommandLines
    /\ mn_archives \in SeqsUpTo(ArchiveKinds, MaxArchives)
    /\ mn_task = [i \in 1..Len(mn_archives) |-> "pending"]
    /\ mn_reported = {}
    /\ mn_exception = FALSE
    /\ mn_merged = FALSE
    /\ mn_exit = "none"
    /\ mn_pc = "start"
    /\ ParseIdle
    /\ GridIdle
    /\ MergeIdle
    /\ DemIdle
    /\ PipelineIdle
    /\ FgdIdle
    /\ RsIdle
    /\ BlendIdle
    /\ ExtenderIdle
    /\ ConvIdle

\* lines 88-91: help is printed
Main_Help ==
    /\ mn_pc = "start"
    /\ mn_args.help \/ (~mn_args.input /\ ~mn_args.merge_only)
    /\ mn_exit' = 0
    /\ mn_pc' = "exited"
    /\ UNCHANGED <<mn_args, mn_archives, mn_task, mn_reported, mn_exception, mn_merged>>
    /\ UNCHANGED notMain

\* lines 104-123: the merge-only branch
Main_MergeOnly ==
    /\ mn_pc = "start"
    /\ ~(mn_args.help \/ (~mn_args.input /\ ~mn_args.merge_only))
    /\ mn_args.merge_only
    /\ IF mn_args.merge = ""
       THEN mn_exit' = 1 /\ UNCHANGED mn_merged
       ELSE mn_merged' = TRUE /\ mn_exit' \in {0, 1}
    /\ mn_pc' = "exited"
    /\ UNCHANGED <<mn_args, mn_archives, mn_task, mn_reported, mn_exception>>
    /\ UNCHANGED notMain

\* lines 126-159: the input folder is checked and the archives are extracted
Main_Extract ==
    /\ mn_pc = "start"
    /\ ~(mn_args.help \/ (~mn_args.input /\ ~mn_args.merge_only))
    /\ ~mn_args.merge_only
    /\ IF ~mn_args.input_exists THEN mn_exit' = 1 /\ mn_pc' = "exited"
       ELSE IF mn_args.extract_only THEN mn_exit' = 0 /\ mn_pc' = "exited"
       ELSE mn_pc' = "convert" /\ UNCHANGED mn_exit
    /\ UNCHANGED <<mn_args, mn_archives, mn_task, mn_reported, mn_exception, mn_merged>>
    /\ UNCHANGED notMain

\* line 172: parallel_for_each starts the body for an archive; after an
\* exception left a body the group is cancelled and no further body starts
Main_StartTask ==
    /\ mn_pc = "convert"
    /\ ~mn_exception
    /\ \E i \in 1..Len(mn_archives) :
           /\ mn_task[i] = "pending"
           /\ mn_task' = [mn_task EXCEPT ![i] = "running"]
    /\ UNCHANGED <<mn_args, mn_archives, mn_reported, mn_exception, mn_merged, mn_exit, mn_pc>>
    /\ UNCHANGED notMain

\* lines 173-185 and process_zip, lines 19-37: the body for one archive
Main_ProcessZip ==
    /\ mn_pc = "convert"
    /\ \E i \in 1..Len(mn_archives) :
           /\ mn_task[i] = "running"
           /\ IF Throws(mn_archives[i])
              THEN /\ mn_task' = [mn_task EXCEPT ![i] = "threw"]
                   /\ mn_exception' = TRUE
                   /\ UNCHANGED mn_reported
              ELSE IF mn_archives[i] = "run_fails"
              THEN /\ mn_task' = [mn_task EXCEPT ![i] = "failed"]
                   /\ mn_reported' = mn_reported \cup {i}
                   /\ UNCHANGED mn_exception
              ELSE /\ mn_task' = [mn_task EXCEPT ![i] = "converted"]
                   /\ UNCHANGED <<mn_reported, mn_exception>>
    /\ UNCHANGED <<mn_args, mn_archives, mn_merged, mn_exit, mn_pc>>
    /\ UNCHANGED notMain

\* lines 185-197: parallel_for_each returns or rethrows; main returns
Main_Return ==
    /\ mn_pc = "convert"
    /\ \A i \in 1..Len(mn_archives) : mn_task[i] # "running"
    /\ mn_exception \/ \A i \in 1..Len(mn_archives) : mn_task[i] # "pending"
    /\ mn_exit' = IF mn_exception THEN 1 ELSE 0
    /\ mn_pc' = "exited"
    /\ UNCHANGED <<mn_args, mn_archives, mn_task, mn_reported, mn_exception, mn_merged>>
    /\ UNCHANGED notMain

NextMain ==
    \/ Main_Help \/ Main_MergeOnly \/ Main_Extract
    \/ Main_StartTask \/ Main_ProcessZip \/ Main_Return

SpecMain == InitMain /\ [][NextMain]_vars

(***************************************************************************)
(* Properties of main                                                       *)
(***************************************************************************)
\* the run went through the conversion of the archives
ConversionRun == mn_pc = "exited" /\ \E i \in 1..Len(mn_archives) : mn_task[i] # "pending"

\* C19: when converting one archive of a batch fails, every other archive of
\* the batch is still converted.
C19_FailureDoesNotAbortBatch ==
    ConversionRun =>
        \A i \in 1..Len(mn_archives) : mn_archives[i] = "ok" => mn_task[i] = "converted"

\* C20: a run with -i and -m and without -M that converted its archives has
\* merged the converted rasters when it ends.
C20_MergeFollowsConversion ==
    (/\ mn_pc = "exited" /\ mn_exit = 0
     /\ mn_args.input /\ mn_args.merge # "" /\ ~mn_args.merge_only
     /\ ~mn_args.help /\ ~mn_args.extract_only
     /\ \E i \in 1..Len(mn_archives) : mn_task[i] = "converted")
        => mn_merged

(***************************************************************************)
(* GeoTiff::resampling, lines 590-631: the bilinear interpolation loop.     *)
(* proj_trans belongs to PROJ: where it puts the centre of a destination    *)
(* pixel is any point of a lattice of half source pixels, counted from the  *)
(* source raster's upper-left corner to the right and downwards, or, when   *)
(* the transformation fails, the point with both coordinates HUGE_VAL.      *)
(* Source values are tenths or NaN; a blend of four of them with weights    *)
(* in quarters is kept in quarters of a tenth, and so is dst_data.data.     *)
(***************************************************************************)
MaxDstWidth == 2

\* the range of int
INT_MAX == 2147483647
INT_MIN == -INT_MAX - 1

\* std::floor(n / d) for d > 0
Floor(n, d) == n \div d

\* int addition of a positive b as the hardware does it, wrapping past INT_MAX
int_add(a, b) == IF a > INT_MAX - b THEN INT_MIN + (b - (INT_MAX - a) - 1) ELSE a + b

\* a == b on floats: false whenever either side is NaN
float_eq(a, b) == a # NaN /\ b # NaN /\ a = b

\* a float in quarters of a tenth
Quarters(v) == IF v = NaN THEN NaN ELSE 4 * v

\* what read_geotiff returned: rasters with and without a GDAL_NODATA tag
BlendSources ==
    { [width |-> 2, height |-> 2, has_nodata |-> TRUE, nodata_value |-> NODATA,
       data |-> <<40, 80, 120, 160>>],
      [width |-> 2, height |-> 2, has_nodata |-> TRUE, nodata_value |-> NODATA,
       data |-> <<40, 80, 120, NODATA>>],
      [width |-> 3, height |-> 2, has_nodata |-> TRUE, nodata_value |-> NODATA,
       data |-> <<40, 80, NODATA, 120, 160, 200>>],
      [width |-> 2, height |-> 2, has_nodata |-> FALSE, nodata_value |-> NaN,
       data |-> <<40, NODATA, 120, 160>>],
      [width |-> 2, height |-> 2, has_nodata |-> TRUE, nodata_value |-> NaN,
       data |-> <<40, NaN, 120, 160>>],
      [width |-> 2, height |-> 1, has_nodata |-> TRUE, nodata_value |-> NODATA,
       data |-> <<40, 80>>] }

\* where the inverse transform can put a point, in half pixels from the corner
HalfColumns == {-1, 0, 1, 2, 3, 4, 5}
HalfRows == {-1, 1, 2, 3}

\* proj_trans on failure: x and y are both HUGE_VAL, positive infinity
FailedPoint == [x |-> 0, y |-> 0, finite |-> FALSE]

SourcePoints ==
    { [x |-> x, y |-> y, finite |-> TRUE] : x \in HalfColumns, y \in HalfRows }
        \cup {FailedPoint}

\* lines 613-619 with only the first sample tested
neighbour_has_nodata_first_only(src, v00, v01, v10, v11) ==
    src.has_nodata /\ float_eq(v00, src.nodata_value)

\* lines 613-619: the NODATA check
neighbour_has_nodata(src, v00, v01, v10, v11) ==
    /\ src.has_nodata
    /\ \/ float_eq(v00, src.nodata_value) \/ float_eq(v01, src.nodata_value)
       \/ float_eq(v10, src.nodata_value) \/ float_eq(v11, src.nodata_value)

\* lines 621-622: the weighted sum, with dx and dy in halves
weighted_sum(dx2, dy2, v00, v01, v10, v11) ==
    IF NaN \in {v00, v01, v10, v11} THEN NaN
    ELSE (2 - dx2) * (2 - dy2) * v00 + dx2 * (2 - dy2) * v01
         + (2 - dx2) * dy2 * v10 + dx2 * dy2 * v11

\* lines 596-602: src_col_f and src_row_f of a point, doubled
src_col_f2(point) == point.x - 1
src_row_f2(point) == point.y - 1

\* lines 604-605: static_cast<int>(std::floor(...)).  For the failed point
\* src_col_f is +infinity and src_row_f is -infinity, and the conversion is
\* undefined: cvttsd2si (x86-64) yields INT_MIN for both, fcvtzs (AArch64)
\* saturates to INT_MAX and INT_MIN.
src_col0_outcomes(point) ==
    IF point.finite THEN {Floor(src_col_f2(point), 2)} ELSE {INT_MIN, INT_MAX}
src_row0_outcomes(point) ==
    IF point.finite THEN {Floor(src_row_f2(point), 2)} ELSE {INT_MIN}

\* lines 604-624 for a point, given what the conversions to int yielded for
\* src_col0 and src_row0: whether the destination pixel is assigned, and the value
bilinear(src, point, src_col0, src_row0) ==
    LET src_col1 == int_add(src_col0, 1)
        src_row1 == int_add(src_row0, 1)
    IN  IF src_col0 >= 0 /\ src_col1 < src.width /\ src_row0 >= 0 /\ src_row1 < src.height
        THEN LET dx2 == src_col_f2(point) - 2 * src_col0
                 dy2 == src_row_f2(point) - 2 * src_row0
                 v00 == src.data[src_row0 * src.width + src_col0 + 1]
                 v01 == src.data[src_row0 * src.width + src_col1 + 1]
                 v10 == src.data[src_row1 * src.width + src_col0 + 1]
                 v11 == src.data[src_row1 * src.width + src_col1 + 1]
             IN  IF neighbour_has_nodata(src, v00, v01, v10, v11)
                 THEN [assign |-> FALSE, value |-> 0]
                 ELSE [assign |-> TRUE, value |-> weighted_sum(dx2, dy2, v00, v01, v10, v11)]
        ELSE [assign |-> FALSE, value |-> 0]

\* lines 570-582: dst_data as the loop finds it, filled with src_data.nodata_value
InitBlend ==
    /\ bl_src \in BlendSources
    /\ \E dst_width \in 1..MaxDstWidth :
           bl_dst = [width |-> dst_width, height |-> 1,
                     data |-> [i \in 1..dst_width |-> Quarters(bl_src.nodata_value)],
                     nodata_value |-> bl_src.nodata_value, has_nodata |-> bl_src.has_nodata]
    /\ bl_coords = <<>>
    /\ bl_index = 0
    /\ bl_pc = "loop"
    /\ ParseIdle
    /\ GridIdle
    /\ MergeIdle
    /\ DemIdle
    /\ PipelineIdle
    /\ FgdIdle
    /\ RsIdle
    /\ MainIdle
    /\ ExtenderIdle
    /\ ConvIdle

\* lines 591-630: one destination pixel
Blend_Pixel ==
    /\ bl_pc = "loop"
    /\ bl_index < bl_dst.width * bl_dst.height
    /\ \E point \in SourcePoints :
           \E src_col0 \in src_col0_outcomes(point), src_row0 \in src_row0_outcomes(point) :
               \E r \in {bilinear(bl_src, point, src_col0, src_row0)} :
                   /\ bl_dst' = IF r.assign
                                THEN [bl_dst EXCEPT !.data[bl_index + 1] = r.value]
                                ELSE bl_dst
                   /\ bl_coords' = Append(bl_coords, point)
    /\ bl_index' = bl_index + 1
    /\ UNCHANGED <<bl_src, bl_pc>>
    /\ UNCHANGED notBlend

\* line 590: the loop is over
Blend_Done ==
    /\ bl_pc = "loop"
    /\ bl_index = bl_dst.width * bl_dst.height
    /\ bl_pc' = "done"
    /\ UNCHANGED <<bl_src, bl_dst, bl_coords, bl_index>>
    /\ UNCHANGED notBlend

NextBlend == Blend_Pixel \/ Blend_Done

SpecBlend == InitBlend /\ [][NextBlend]_vars

(***************************************************************************)
(* Properties of the interpolation loop                                     *)
(***************************************************************************)
\* the column (or row) whose centre is the nearest at or before the point
CellBefore(x) == CHOOSE c \in -2..3 : 2 * c + 1 <= x /\ x < 2 * c + 3

\* the 2x2 source neighbourhood of a point, as columns and rows
NeighbourCells(point) ==
    {CellBefore(point.x), CellBefore(point.x) + 1}
        \X {CellBefore(point.y), CellBefore(point.y) + 1}

InsideSource(cell) ==
    cell[1] \in 0..(bl_src.width - 1) /\ cell[2] \in 0..(bl_src.height - 1)

DeclaredNoData(cell) ==
    bl_src.has_nodata /\ bl_src.data[cell[2] * bl_src.width + cell[1] + 1] = bl_src.nodata_value

Blendable(point) ==
    /\ point.finite
    /\ \A cell \in NeighbourCells(point) : InsideSource(cell) /\ ~DeclaredNoData(cell)

NoDataFill == Quarters(bl_src.nodata_value)

\* C24: a destination pixel whose 2x2 source neighbourhood is not wholly
\* inside the source raster, or holds a pixel equal to the declared no-data
\* value, keeps the no-data fill, and so does every pixel not handled yet.
C24_BlendOnlyInsideAndValid ==
    bl_pc # "idle" =>
        \A i \in 1..(bl_dst.width * bl_dst.height) :
            (i > bl_index \/ ~Blendable(bl_coords[i])) => bl_dst.data[i] = NoDataFill

\* C24 witness: of two destination pixels over a 3x2 source whose right column
\* starts with a no-data pixel, the first was blended from the four left
\* pixels and the second, whose neighbourhood holds the no-data pixel, was not
C24_Witness ==
    /\ bl_pc = "done"
    /\ bl_src.width = 3 /\ bl_src.data[3] = NODATA /\ bl_src.has_nodata
    /\ bl_coords = <<[x |-> 2, y |-> 2, finite |-> TRUE], [x |-> 4, y |-> 2, finite |-> TRUE]>>
    /\ bl_dst.data = <<4 * 100, NoDataFill>>

(***************************************************************************)
(* register_gdal_nodata_tag (geotiff.cpp:48-54) as the conversions of       *)
(* main's parallel_for_each call it: each Converter::run constructs a       *)
(* GeoTiff (line 73) and, for a target other than EPSG:4326, calls          *)
(* resampling (line 457).  The function's reads and writes of registered    *)
(* and parent_extender are plain, so they interleave between threads.       *)
(***************************************************************************)
MaxThreads == 2

Threads == 1..MaxThreads

\* the extenders libtiff can hold: none, another library's, or gdal_tiff_extender
OtherExtenders == {"none", "other"}

InitExtender ==
    /\ tx_resample \in BOOLEAN
    /\ tx_registered = FALSE
    /\ tx_extender \in OtherExtenders
    /\ tx_parent = "none"
    /\ tx_returned = [t \in Threads |-> "none"]
    /\ tx_site = [t \in Threads |-> "none"]
    /\ tx_pc = [t \in Threads |-> "idle"]
    /\ tx_installs = 0
    /\ ParseIdle
    /\ GridIdle
    /\ MergeIdle
    /\ DemIdle
    /\ PipelineIdle
    /\ FgdIdle
    /\ RsIdle
    /\ MainIdle
    /\ BlendIdle
    /\ ConvIdle

\* line 73 and line 457: a thread enters register_gdal_nodata_tag
Extender_Call(t) ==
    /\ \/ tx_pc[t] = "idle" /\ tx_site' = [tx_site EXCEPT ![t] = "GeoTiff::GeoTiff"]
       \/ /\ tx_pc[t] = "returned" /\ tx_site[t] = "GeoTiff::GeoTiff" /\ tx_resample
          /\ tx_site' = [tx_site EXCEPT ![t] = "GeoTiff::resampling"]
    /\ tx_pc' = [tx_pc EXCEPT ![t] = "test"]
    /\ UNCHANGED <<tx_resample, tx_registered, tx_extender, tx_parent, tx_returned, tx_installs>>
    /\ UNCHANGED notExtender

\* line 50: if (!registered)
Extender_Test(t) ==
    /\ tx_pc[t] = "test"
    /\ tx_pc' = [tx_pc EXCEPT ![t] = IF tx_registered THEN "returned" ELSE "set"]
    /\ UNCHANGED <<tx_resample, tx_registered, tx_extender, tx_parent, tx_returned, tx_site,
                   tx_installs>>
    /\ UNCHANGED notExtender

\* line 51, the call: TIFFSetTagExtender installs the extender and returns the old one
Extender_Set(t) ==
    /\ tx_pc[t] = "set"
    /\ tx_returned' = [tx_returned EXCEPT ![t] = tx_extender]
    /\ tx_extender' = "gdal_tiff_extender"
    /\ tx_installs' = tx_installs + 1
    /\ tx_pc' = [tx_pc EXCEPT ![t] = "store"]
    /\ UNCHANGED <<tx_resample, tx_registered, tx_parent, tx_site>>
    /\ UNCHANGED notExtender

\* line 51, the assignment to parent_extender
Extender_Store(t) ==
    /\ tx_pc[t] = "store"
    /\ tx_parent' = tx_returned[t]
    /\ tx_pc' = [tx_pc EXCEPT ![t] = "flag"]
    /\ UNCHANGED <<tx_resample, tx_registered, tx_extender, tx_returned, tx_site, tx_installs>>
    /\ UNCHANGED notExtender

\* line 52: registered = true
Extender_Flag(t) ==
    /\ tx_pc[t] = "flag"
    /\ tx_registered' = TRUE
    /\ tx_pc' = [tx_pc EXCEPT ![t] = "returned"]
    /\ UNCHANGED <<tx_resample, tx_extender, tx_parent, tx_returned, tx_site, tx_installs>>
    /\ UNCHANGED notExtender

NextExtender ==
    \E t \in Threads :
        \/ Extender_Call(t) \/ Extender_Test(t) \/ Extender_Set(t)
        \/ Extender_Store(t) \/ Extender_Flag(t)

SpecExtender == InitExtender /\ [][NextExtender]_vars

\* C25: TIFFSetTagExtender is called at most once in the process, whatever the
\* interleaving of the threads' calls, and the saved parent extender is never
\* gdal_tiff_extender itself.
C25_ExtenderInstalledOnce ==
    /\ tx_installs <= 1
    /\ tx_parent # "gdal_tiff_extender"

(***************************************************************************)
(* The conversions of main's second parallel_for_each (part_000 162-185):   *)
(* each archive found under ./extracted is converted by Converter::run,     *)
(* which extracts it (Dem::unzip_dem), lists and reads the XML files of its *)
(* extraction folder (Dem::get_xml_paths, the pipeline) and writes its      *)
(* raster.  A file name is the sequence of its parts: its first part and    *)
(* then each extension with its dot.  An archive holds one XML document.    *)
(***************************************************************************)
MaxConversions == 2

\* std::filesystem::path::stem of a file name
stem(filename) == IF Len(filename) > 1 THEN SubSeq(filename, 1, Len(filename) - 1) ELSE filename

\* std::filesystem::path::replace_extension of a file name
replace_extension(filename, extension) == stem(filename) \o <<extension>>

\* zip::is_zip_file
is_zip_file(filename) == filename[Len(filename)] \in {".zip", ".ZIP"}

\* the files recursive_directory_iterator can find under ./extracted
ExtractedFiles ==
    [parent : {"a", "b"},
     filename : {<<"X", ".zip">>, <<"Y", ".zip">>, <<"X", ".ZIP">>, <<"X", ".v2", ".zip">>,
                 <<"X", ".txt">>},
     document : {"m1.xml", "m2.xml"}]

\* nested_zips' members (part_000 163-167)
NestedZips == {f \in ExtractedFiles : is_zip_file(f.filename)}

\* the location of a file
PathOf(f) == <<f.parent, f.filename>>

\* unzip_dem's extract_to and get_xml_paths' extract_dir
extract_to(import_path) == <<"extracted", stem(import_path.filename)>>

\* Converter::run's output_file for a Config without file_name
output_file(import_path) == <<"output", replace_extension(stem(import_path.filename), ".tif")>>

InitConv ==
    /\ cv_archives \in {a \in SeqsUpTo(NestedZips, MaxConversions) :
                           /\ a # <<>>
                           /\ \A i, j \in 1..Len(a) : i # j => PathOf(a[i]) # PathOf(a[j])}
    /\ cv_pc = [t \in 1..Len(cv_archives) |-> "start"]
    /\ cv_files = {}
    /\ cv_read = [t \in 1..Len(cv_archives) |-> {}]
    /\ cv_written = <<>>
    /\ ParseIdle
    /\ GridIdle
    /\ MergeIdle
    /\ DemIdle
    /\ PipelineIdle
    /\ FgdIdle
    /\ RsIdle
    /\ MainIdle
    /\ BlendIdle
    /\ ExtenderIdle

\* Dem::unzip_dem: the archive's document is saved under extract_to, replacing
\* a file of that name
Conv_Unzip(t) ==
    /\ cv_pc[t] = "start"
    /\ LET dir == extract_to(cv_archives[t])
       IN  cv_files' = {f \in cv_files : ~(f.dir = dir /\ f.name = cv_archives[t].document)}
                           \cup {[dir |-> dir, name |-> cv_archives[t].document, from |-> t]}
    /\ cv_pc' = [cv_pc EXCEPT ![t] = "unzipped"]
    /\ UNCHANGED <<cv_archives, cv_read, cv_written>>
    /\ UNCHANGED notConv

\* Dem::get_xml_paths and the read of the files it lists (dem.cpp 40-50)
Conv_ReadXml(t) ==
    /\ cv_pc[t] = "unzipped"
    /\ cv_read' = [cv_read EXCEPT ![t] = {f \in cv_files : f.dir = extract_to(cv_archives[t])}]
    /\ cv_pc' = [cv_pc EXCEPT ![t] = "read"]
    /\ UNCHANGED <<cv_archives, cv_files, cv_written>>
    /\ UNCHANGED notConv

\* Converter::run, lines 1023-1049: make_data_for_geotiff or GeoTiff::create fails
Conv_Fail(t) ==
    /\ cv_pc[t] = "read"
    /\ cv_pc' = [cv_pc EXCEPT ![t] = "failed"]
    /\ UNCHANGED <<cv_archives, cv_files, cv_read, cv_written>>
    /\ UNCHANGED notConv

\* Converter::run, lines 1027-1049: the raster is written to output_file
Conv_Write(t) ==
    /\ cv_pc[t] = "read"
    /\ cv_written' = Append(cv_written, [path |-> output_file(cv_archives[t]), by |-> t])
    /\ cv_pc' = [cv_pc EXCEPT ![t] = "done"]
    /\ UNCHANGED <<cv_archives, cv_files, cv_read>>
    /\ UNCHANGED notConv

NextConv ==
    \E t \in 1..Len(cv_archives) :
        Conv_Unzip(t) \/ Conv_ReadXml(t) \/ Conv_Fail(t) \/ Conv_Write(t)

SpecConv == InitConv /\ [][NextConv]_vars

(***************************************************************************)
(* Properties of the concurrent conversions                                 *)
(***************************************************************************)
\* conversion i read a document that archive j holds
ReadsFrom(i, j) == \E f \in cv_read[i] : f.from = j

\* conversion j wrote over the raster conversion i had written
Overwrites(j, i) ==
    \E k, l \in 1..Len(cv_written) :
        /\ k < l
        /\ cv_written[k].by = i /\ cv_written[l].by = j
        /\ cv_written[k].path = cv_written[l].path

\* C29: the conversions of distinct archives extract into pairwise distinct
\* directories and write pairwise distinct output files; no conversion reads a
\* document of another archive or writes over another archive's raster.
C29_ConversionsKeptApart ==
    \A i, j \in 1..Len(cv_archives) :
        i # j =>
            /\ (cv_pc[i] # "start" /\ cv_pc[j] # "start")
                   => extract_to(cv_archives[i]) # extract_to(cv_archives[j])
            /\ (cv_pc[i] = "done" /\ cv_pc[j] = "done")
                   => output_file(cv_archives[i]) # output_file(cv_archives[j])
            /\ ~ReadsFrom(i, j)
            /\ ~Overwrites(j, i)

====
